---- MODULE Spec2Model ----
(***************************************************************************)
(* A model of the Moji backend: the /ws/interact session protocol and turn *)
(* pipeline (ws_handlers/), the memory store and its compaction            *)
(* (repositories/memory.py, services/memory_compaction.py), the            *)
(* conversation history (services/history.py) and the zone graph           *)
(* (repositories/zones.py).                                                *)
(*                                                                         *)
(* Python strings are tuples of one-character strings, so that lower(),    *)
(* substring search and comparison are computed and not assumed.  An       *)
(* accented letter is one element, written with a prefix ("'a", "~n").     *)
(* Python's None is the model value None; `x or y` is Or(x, y).            *)
(*                                                                         *)
(* Each component has its own specification (SpecWS, SpecMem, SpecZones,   *)
(* SpecCompact, SpecHist); the variables of the other components stay at   *)
(* their initial values in it.                                             *)
(***************************************************************************)
EXTENDS Integers, Sequences, FiniteSets, TLC

VARIABLES
    \* ── ws_handlers: one connection ──────────────────────────────────────
    wsState,                 \* CONNECTING | AWAITING_AUTH | ACTIVE | CLOSED
    client_state,            \* websocket.client_state
    closeCode,               \* code given to websocket.close(), 0 = close() not called
    exitPath,                \* how ws_interact ended ("" while it runs)
    outbox,                  \* events handed to websocket.send_text, in order
    person_id,               \* ws_interact locals
    request_id,
    audio_buffer,
    pending_face_embedding,
    pc,                      \* position of the connection's coroutine
    turn,                    \* arguments of the running _process_interaction
    response,                \* value returned by run_agent for the running turn
    turns,                   \* number of _process_interaction calls so far
    agentCalls,              \* number of run_agent invocations so far
    agentResult,             \* how the last run_agent call ended: pending | returned | raised
    frames,                  \* number of inbound frames received in ACTIVE
    bg,                      \* background tasks created with asyncio.create_task
    lastFrame,               \* the inbound frame handled last (observation)
    authInput                \* the first message given to authenticate_websocket (observation)

wsVars == << wsState, client_state, closeCode, exitPath, outbox, person_id, request_id,
             audio_buffer, pending_face_embedding, pc, turn, response, turns,
             agentCalls, agentResult, frames, bg, lastFrame, authInput >>

VARIABLES
    \* repositories/memory.py: the memories table
    memories,                \* the rows of the table
    mem_next_id,             \* the next primary key the table gives
    now,                     \* the clock: a timestamp is the clock's value at the insert
    memOp,                   \* the last repository call and what it returned
    \* services/memory_compaction.py
    passes,                  \* the compact_memories_async calls, each with its locals
    llm_calls,               \* the calls of the model made by _compact_group
    \* repositories/zones.py
    zone_paths,              \* the rows of zone_paths, in the order a select yields them
    path_query,              \* the last find_path call: its arguments, the rows it read, its result
    \* services/history.py
    _cache,                  \* the cached messages of the conversation
    history_rows,            \* the rows of conversation_history
    save_tasks,              \* the _save_history_bg tasks, each with its position
    compact_tasks,           \* the _compact tasks, each with its locals
    checks,                  \* the compact_if_needed calls: cached size, task created or not
    crossings                \* times the cached size went from below the threshold to it

VARIABLES
    \* repositories/zones.py: the zones table
    zones,                   \* the rows of the table
    zone_next_id,            \* the next primary key the table gives
    zoneOp,                  \* the last repository call on the table and what it returned
    \* services/intent.py
    intent_query             \* a response text and what classify_intent made of it

VARIABLES
    \* services/history.py: one ConversationHistory used for several sessions
    session_cache,           \* self._cache: session_id -> the list of cached messages
    adding,                  \* the add_message calls, each with its locals and position
    session_rows,            \* the rows of conversation_history, each with its session_id
    history_read             \* the last get_history call and what it returned

memVars == << memories, mem_next_id, now, memOp >>

cmpVars == << passes, llm_calls >>

zoneVars == << zone_paths, path_query >>

histVars == << _cache, history_rows, save_tasks, compact_tasks, checks, crossings >>

tabVars == << zones, zone_next_id, zoneOp >>

intentVars == << intent_query >>

sessVars == << session_cache, adding, session_rows, history_read >>

moreVars == << tabVars, intentVars, sessVars >>

notWsVars == << memVars, cmpVars, zoneVars, histVars, moreVars >>

vars == << wsVars, memVars, cmpVars, zoneVars, histVars, moreVars >>

----------------------------------------------------------------------------
\* ── Python values ───────────────────────────────────────────────────────

\* Identifiers, message fields and payload handles are atoms (TLA+ strings);
\* None is an atom no message can carry.  bytes | None values are tuples of
\* fragments, with NoneBytes for None.
None == "<None>"

NoneBytes == << "<None>" >>

\* bool(v) of a value that is None or a str
Truthy(v) == v /= None /\ v /= ""

\* `a or b`
Or(a, b) == IF Truthy(a) THEN a ELSE b

\* str.lower() on one character: ASCII and the accented capitals of Spanish.
LowerMap ==
    [ c \in { "A", "B", "C", "D", "E", "F", "G", "H", "I", "J", "K", "L", "M", "N", "O",
              "P", "Q", "R", "S", "T", "U", "V", "W", "X", "Y", "Z",
              "'A", "'E", "'I", "'O", "'U", "~N" } |->
        CASE c = "A" -> "a" [] c = "B" -> "b" [] c = "C" -> "c" [] c = "D" -> "d"
          [] c = "E" -> "e" [] c = "F" -> "f" [] c = "G" -> "g" [] c = "H" -> "h"
          [] c = "I" -> "i" [] c = "J" -> "j" [] c = "K" -> "k" [] c = "L" -> "l"
          [] c = "M" -> "m" [] c = "N" -> "n" [] c = "O" -> "o" [] c = "P" -> "p"
          [] c = "Q" -> "q" [] c = "R" -> "r" [] c = "S" -> "s" [] c = "T" -> "t"
          [] c = "U" -> "u" [] c = "V" -> "v" [] c = "W" -> "w" [] c = "X" -> "x"
          [] c = "Y" -> "y" [] c = "Z" -> "z"
          [] c = "'A" -> "'a" [] c = "'E" -> "'e" [] c = "'I" -> "'i"
          [] c = "'O" -> "'o" [] c = "'U" -> "'u" [] c = "~N" -> "~n" ]

LowerChar(c) == IF c \in DOMAIN LowerMap THEN LowerMap[c] ELSE c

\* s.lower()
Lower(s) == [ i \in 1..Len(s) |-> LowerChar(s[i]) ]

\* `needle in hay` for two str
Contains(hay, needle) ==
    \E i \in 0..(Len(hay) - Len(needle)) :
        \A j \in 1..Len(needle) : hay[i + j] = needle[j]

\* str.strip(): leading and trailing blanks removed
RECURSIVE LStrip(_)
LStrip(s) == IF s /= << >> /\ Head(s) = " " THEN LStrip(Tail(s)) ELSE s

RECURSIVE RStrip(_)
RStrip(s) == IF s /= << >> /\ s[Len(s)] = " " THEN RStrip(SubSeq(s, 1, Len(s) - 1)) ELSE s

Strip(s) == RStrip(LStrip(s))

----------------------------------------------------------------------------
\* ── ws_handlers/protocol.py: the events of the wire protocol ────────────
\* An event keeps the fields the server sets: its type, the request_id, the
\* error_code and recoverable flag of an error, and one payload (arg).  `turn`
\* is the number of the _process_interaction call that sent it (0: none).

Ev(kind, t, rid, code, rec, arg) ==
    [ kind |-> kind, turn |-> t, rid |-> rid, code |-> code, rec |-> rec, arg |-> arg ]

\* uuid4 values: one connection draws one session id; generated request ids
\* are told apart from the ids a client sends, not from each other.
new_session_id == "uuid-session"

new_request_id == "uuid-request"

make_auth_ok(session_id) == Ev("auth_ok", 0, None, "", FALSE, session_id)

make_error(error_code, t, rid, recoverable) == Ev("error", t, rid, error_code, recoverable, None)

make_emotion(t, rid, emotion) == Ev("emotion", t, rid, "", FALSE, emotion)

make_text_chunk(t, rid, text) == Ev("text_chunk", t, rid, "", FALSE, text)

make_capture_request(t, rid, capture_type) == Ev("capture_request", t, rid, "", FALSE, capture_type)

make_response_meta(t, rid, emojis) == Ev("response_meta", t, rid, "", FALSE, emojis)

make_stream_end(t, rid) == Ev("stream_end", t, rid, "", FALSE, None)

\* the payload is the list of action sequences
make_face_scan_actions(rid, actions) == Ev("face_scan_actions", 0, rid, "", FALSE, actions)

----------------------------------------------------------------------------
\* ── services/movement.py ────────────────────────────────────────────────
\* A step is its action, its amount (degrees or cm, 0 when it has none) and
\* its duration_ms.

Step(action, amount, duration_ms) ==
    [ action |-> action, amount |-> amount, duration_ms |-> duration_ms ]

\* _GESTURE_ALIASES, lines 49-84
_GESTURE_ALIASES ==
    [ alias \in { "wave", "nod", "shake_head", "wiggle", "rotate_left", "rotate_right",
                  "move_forward", "move_backward", "pause" } |->
        CASE alias = "wave" -> << Step("turn_right_deg", 25, 250), Step("turn_left_deg", 50, 250),
                                  Step("turn_right_deg", 25, 250) >>
          [] alias = "nod" -> << Step("move_forward_cm", 5, 300), Step("move_backward_cm", 5, 300) >>
          [] alias = "shake_head" -> << Step("turn_left_deg", 30, 200),
                                        Step("turn_right_deg", 60, 200),
                                        Step("turn_left_deg", 30, 200) >>
          [] alias = "wiggle" -> << Step("turn_left_deg", 15, 150), Step("turn_right_deg", 30, 150),
                                    Step("turn_left_deg", 15, 150) >>
          [] alias = "rotate_left" -> << Step("turn_left_deg", 90, 800) >>
          [] alias = "rotate_right" -> << Step("turn_right_deg", 90, 800) >>
          [] alias = "move_forward" -> << Step("move_forward_cm", 30, 1000) >>
          [] alias = "move_backward" -> << Step("move_backward_cm", 30, 1000) >>
          [] alias = "pause" -> << Step("pause", 0, 500) >> ]

\* sum(s["duration_ms"] for s in steps)
RECURSIVE TotalDuration(_)
TotalDuration(steps) ==
    IF steps = << >> THEN 0 ELSE Head(steps).duration_ms + TotalDuration(Tail(steps))

\* expand_step, lines 87-108: an alias becomes its primitives, scaled to the
\* step's duration_ms when that differs from the alias's own total;
\* int(d * (override / default)) is taken as the integer part of the quotient
expand_step(step) ==
    IF step.action \in DOMAIN _GESTURE_ALIASES
    THEN LET alias_steps == _GESTURE_ALIASES[step.action]
             default_dur == TotalDuration(alias_steps)
             override_dur == step.duration_ms
         IN IF override_dur /= 0 /\ override_dur /= default_dur /\ default_dur > 0
            THEN [ i \in 1..Len(alias_steps) |->
                     [ alias_steps[i] EXCEPT
                         !.duration_ms = ( alias_steps[i].duration_ms * override_dur )
                                         \div default_dur ] ]
            ELSE alias_steps
    ELSE << step >>

RECURSIVE Expanded(_)
Expanded(steps) ==
    IF steps = << >> THEN << >> ELSE expand_step(Head(steps)) \o Expanded(Tail(steps))

\* build_move_sequence, lines 111-139
build_move_sequence(description, steps) ==
    LET expanded == Expanded(steps)
    IN [ description |-> description, steps |-> expanded,
         total_duration_ms |-> TotalDuration(expanded), step_count |-> Len(expanded) ]

\* ws_handlers/streaming.py, lines 54-60
_FACE_SCAN_SEQUENCE ==
    << Step("turn_right_deg", 45, 500), Step("pause", 0, 300), Step("turn_left_deg", 90, 800),
       Step("pause", 0, 300), Step("turn_right_deg", 45, 500) >>

----------------------------------------------------------------------------
\* ── services/intent.py ──────────────────────────────────────────────────

_PHOTO_KEYWORDS ==
    { <<"t", "o", "m", "a", " ", "u", "n", "a", " ", "f", "o", "t", "o">>,
      <<"s", "a", "c", "a", " ", "u", "n", "a", " ", "f", "o", "t", "o">>,
      <<"h", "a", "z", " ", "u", "n", "a", " ", "f", "o", "t", "o">>,
      <<"c", "a", "p", "t", "u", "r", "a", " ", "u", "n", "a", " ", "i", "m", "a", "g", "e", "n">>,
      <<"h", "a", "z", "m", "e", " ", "u", "n", "a", " ", "f", "o", "t", "o">>,
      <<"t", "o", "m", "a", " ", "u", "n", "a", " ", "i", "m", "a", "g", "e", "n">>,
      <<"f", "o", "t", "o", "g", "r", "a", "f", "'i", "a">>,
      <<"f", "o", "t", "o", "g", "r", "a", "f", "i", "a">>,
      <<"p", "u", "e", "d", "o", " ", "v", "e", "r">>,
      <<"d", "'e", "j", "a", "m", "e", " ", "v", "e", "r">>,
      <<"d", "'e", "j", "a", "m", "e", " ", "v", "e", "r", "t", "e">>,
      <<"m", "u", "'e", "s", "t", "r", "a", "m", "e", " ", "t", "u", " ", "c", "a", "r", "a">>,
      <<"m", "o", "s", "t", "r", "a", "r", "m", "e", " ", "t", "u", " ", "c", "a", "r", "a">>,
      <<"m", "o", "s", "t", "r", "a", "r", "m", "e", " ", "t", "u", " ", "r", "o", "s", "t", "r", "o">>,
      <<"e", "n", "s", "e", "~n", "a", "m", "e", " ", "t", "u", " ", "c", "a", "r", "a">>,
      <<"e", "n", "s", "e", "~n", "a", "m", "e", " ", "t", "u", " ", "r", "o", "s", "t", "r", "o">>,
      <<"c", "a", "p", "t", "u", "r", "a", " ", "u", "n", "a", " ", "f", "o", "t", "o">>,
      <<"t", "a", "k", "e", " ", "a", " ", "p", "h", "o", "t", "o">>,
      <<"t", "a", "k", "e", " ", "a", " ", "p", "i", "c", "t", "u", "r", "e">>,
      <<"s", "n", "a", "p", " ", "a", " ", "p", "h", "o", "t", "o">>,
      <<"s", "n", "a", "p", " ", "a", " ", "p", "i", "c", "t", "u", "r", "e">>,
      <<"c", "a", "p", "t", "u", "r", "e", " ", "a", " ", "p", "h", "o", "t", "o">>,
      <<"c", "a", "p", "t", "u", "r", "e", " ", "a", "n", " ", "i", "m", "a", "g", "e">>,
      <<"l", "e", "t", " ", "m", "e", " ", "s", "e", "e", " ", "y", "o", "u">>,
      <<"s", "h", "o", "w", " ", "m", "e", " ", "y", "o", "u", "r", " ", "f", "a", "c", "e">>,
      <<"l", "e", "t", " ", "m", "e", " ", "s", "e", "e", " ", "y", "o", "u", "r", " ", "f", "a", "c", "e">> }

_VIDEO_KEYWORDS ==
    { <<"g", "r", "a", "b", "a", " ", "u", "n", " ", "v", "i", "d", "e", "o">>,
      <<"g", "r", "a", "b", "a", " ", "u", "n", " ", "v", "'i", "d", "e", "o">>,
      <<"t", "o", "m", "a", " ", "u", "n", " ", "v", "i", "d", "e", "o">>,
      <<"t", "o", "m", "a", " ", "u", "n", " ", "v", "'i", "d", "e", "o">>,
      <<"f", "i", "l", "m", "a">>,
      <<"c", "a", "p", "t", "u", "r", "a", " ", "u", "n", " ", "v", "i", "d", "e", "o">>,
      <<"c", "a", "p", "t", "u", "r", "a", " ", "u", "n", " ", "v", "'i", "d", "e", "o">>,
      <<"g", "r", "a", "b", "a", "r", " ", "u", "n", " ", "v", "i", "d", "e", "o">>,
      <<"g", "r", "a", "b", "a", "r", " ", "u", "n", " ", "v", "'i", "d", "e", "o">>,
      <<"m", "u", "'e", "s", "t", "r", "a", "m", "e", " ", "l", "o", " ", "q", "u", "e">>,
      <<"m", "o", "s", "t", "r", "a", "r", "m", "e", " ", "l", "o", " ", "q", "u", "e">>,
      <<"q", "u", "'e", " ", "e", "s", "t", "'a", " ", "p", "a", "s", "a", "n", "d", "o">>,
      <<"q", "u", "e", " ", "e", "s", "t", "a", " ", "p", "a", "s", "a", "n", "d", "o">>,
      <<"m", "u", "'e", "s", "t", "r", "a", "m", "e", " ", "q", "u", "'e">>,
      <<"g", "r", "'a", "b", "a", "m", "e">>,
      <<"g", "r", "a", "b", "a", "m", "e">>,
      <<"r", "e", "g", "i", "s", "t", "r", "a", " ", "u", "n", " ", "v", "i", "d", "e", "o">>,
      <<"r", "e", "g", "i", "s", "t", "r", "a", " ", "u", "n", " ", "v", "'i", "d", "e", "o">>,
      <<"r", "e", "c", "o", "r", "d", " ", "a", " ", "v", "i", "d", "e", "o">>,
      <<"t", "a", "k", "e", " ", "a", " ", "v", "i", "d", "e", "o">>,
      <<"c", "a", "p", "t", "u", "r", "e", " ", "a", " ", "v", "i", "d", "e", "o">>,
      <<"f", "i", "l", "m", " ", "t", "h", "i", "s">>,
      <<"s", "h", "o", "w", " ", "m", "e", " ", "w", "h", "a", "t">>,
      <<"w", "h", "a", "t", "'", "s", " ", "h", "a", "p", "p", "e", "n", "i", "n", "g">>,
      <<"w", "h", "a", "t", " ", "i", "s", " ", "h", "a", "p", "p", "e", "n", "i", "n", "g">>,
      <<"l", "e", "t", " ", "m", "e", " ", "s", "e", "e", " ", "w", "h", "a", "t">> }

\* a classify_intent that looks for photo keywords first
classify_intent_photo_first(response_text) ==
    LET lower == Lower(response_text) IN
    IF \E kw \in _PHOTO_KEYWORDS : Contains(lower, kw) THEN "photo_request"
    ELSE IF \E kw \in _VIDEO_KEYWORDS : Contains(lower, kw) THEN "video_request"
    ELSE None

\* classify_intent(response_text): video keywords are looked for first.
classify_intent(response_text) ==
    LET lower == Lower(response_text) IN
    IF \E kw \in _VIDEO_KEYWORDS : Contains(lower, kw) THEN "video_request"
    ELSE IF \E kw \in _PHOTO_KEYWORDS : Contains(lower, kw) THEN "photo_request"
    ELSE None

----------------------------------------------------------------------------
\* ── bounds of the connection model ──────────────────────────────────────

\* inbound frames handled by one connection in ACTIVE
MaxFrames == 2

\* turns (_process_interaction calls) of one connection
MaxTurns == 2

\* longest credential string tried at the handshake
MaxCredLen == 3

----------------------------------------------------------------------------
\* ── ws_handlers/auth.py ─────────────────────────────────────────────────

\* settings.API_KEY
API_KEY == << "K", "e", "y" >>

\* close code of _close_with_error
POLICY_VIOLATION == 1008

\* a comparison that stops at the end of the presented credential
compare_digest_prefix(a, b) ==
    Len(a) <= Len(b) /\ a = SubSeq(b, 1, Len(a))

\* secrets.compare_digest(api_key.encode(), settings.API_KEY.encode()), line 97
compare_digest(a, b) == a = b

\* a key that the JSON object does not have
Absent == << "<absent>" >>

\* str(data.get("api_key", "")): a missing key gives "", a JSON null "None"
api_key_str(field) ==
    IF field = Absent THEN << >>
    ELSE IF field = NoneBytes THEN << "N", "o", "n", "e" >>
    ELSE field

CredChars == { "K", "k", "e", "y" }

CredStrings == UNION { [ 1..n -> CredChars ] : n \in 0..MaxCredLen }

\* What websocket.receive_text() gives authenticate_websocket: a timeout, another
\* failure of the receive, or a text that is no JSON, JSON that is no object,
\* or a JSON object with its "type" and "api_key".
AuthMsg(recv, json, type, api_key) ==
    [ recv |-> recv, json |-> json, type |-> type, api_key |-> api_key ]

\* before the first frame is read
NoAuthMsg == AuthMsg(None, None, None, Absent)

AuthInputs ==
    { AuthMsg("timeout", None, None, Absent),
      AuthMsg("error", None, None, Absent),
      AuthMsg("text", "invalid", None, Absent),
      AuthMsg("text", "nonobject", None, Absent) }
    \cup { AuthMsg("text", "object", t, k) :
             t \in { "auth", "text", None },
             k \in CredStrings \cup { Absent, NoneBytes } }

\* authenticate_websocket: the value it returns ("raise" when an exception
\* leaves it), the error_code it gives _close_with_error (None: not called).
authenticate_websocket(in) ==
    CASE in.recv = "timeout" -> [ ret |-> None, error_code |-> "AUTH_TIMEOUT" ]
      [] in.recv = "error" -> [ ret |-> None, error_code |-> None ]
      [] in.json = "invalid" -> [ ret |-> None, error_code |-> "INVALID_MESSAGE" ]
      \* data.get on a list, a string or a number: AttributeError, not caught
      [] in.json = "nonobject" -> [ ret |-> "raise", error_code |-> None ]
      [] in.type /= "auth" -> [ ret |-> None, error_code |-> "INVALID_MESSAGE" ]
      [] ~ compare_digest(api_key_str(in.api_key), API_KEY) ->
            [ ret |-> None, error_code |-> "INVALID_API_KEY" ]
      [] OTHER -> [ ret |-> new_session_id, error_code |-> None ]

\* _close_with_error: the error event, if the client is connected, then close(1008)
_close_with_error(error_code) ==
    /\ outbox' = IF client_state = "CONNECTED"
                 THEN Append(outbox, make_error(error_code, 0, None, FALSE))
                 ELSE outbox
    /\ closeCode' = POLICY_VIOLATION

NoTurn ==
    [ n |-> 0, person_id |-> None, request_id |-> None, user_input |-> None,
      input_type |-> None, audio_data |-> NoneBytes, image_data |-> None,
      video_data |-> None, face_embedding_b64 |-> None, memory_context |-> None ]

NoResponse ==
    [ emotion |-> None, response_text |-> << >>, memories |-> << >>,
      person_name |-> None, emojis |-> << >>, media_summary |-> None ]

NoFrame ==
    [ frame |-> None, bytes |-> << >>, raw |-> None, type |-> None,
      request_id |-> None, person_id |-> None, face_embedding |-> None,
      content |-> None, known |-> None, data |-> None, text |-> None,
      audio |-> None, image |-> None, video |-> None ]

WSInit ==
    /\ wsState = "CONNECTING"
    /\ client_state = "CONNECTING"
    /\ closeCode = 0
    /\ exitPath = ""
    /\ outbox = << >>
    /\ person_id = None
    /\ request_id = ""
    /\ audio_buffer = << >>
    /\ pending_face_embedding = None
    /\ pc = "accept"
    /\ turn = NoTurn
    /\ response = NoResponse
    /\ turns = 0
    /\ agentCalls = 0
    /\ agentResult = None
    /\ frames = 0
    /\ bg = << >>
    /\ lastFrame = NoFrame
    /\ authInput = NoAuthMsg

\* ws_interact, line 73: await websocket.accept()
Accept ==
    /\ wsState = "CONNECTING"
    /\ wsState' = "AWAITING_AUTH"
    /\ client_state' = "CONNECTED"
    /\ pc' = "auth"
    /\ UNCHANGED << closeCode, exitPath, outbox, person_id, request_id, audio_buffer,
                    pending_face_embedding, turn, response, turns, agentCalls, agentResult, frames,
                    bg, lastFrame, authInput >>
    /\ UNCHANGED notWsVars

\* ws_interact without the return of line 77: the loop is entered whatever
\* authenticate_websocket returned
Authenticate_lenient ==
    /\ wsState = "AWAITING_AUTH"
    /\ \E in \in AuthInputs :
         LET r == authenticate_websocket(in) IN
         /\ authInput' = in
         /\ outbox' = IF r.ret \notin { None, "raise" }
                      THEN Append(outbox, make_auth_ok(r.ret))
                      ELSE outbox
         /\ wsState' = IF r.ret = "raise" THEN "CLOSED" ELSE "ACTIVE"
         /\ exitPath' = IF r.ret = "raise" THEN "auth_exception" ELSE ""
         /\ pc' = IF r.ret = "raise" THEN "done" ELSE "recv"
    /\ UNCHANGED << closeCode, client_state, person_id, request_id, audio_buffer,
                    pending_face_embedding, turn, response, turns, agentCalls, agentResult, frames,
                    bg, lastFrame >>
    /\ UNCHANGED notWsVars

\* ws_interact, lines 75-92: authenticate_websocket, then return on failure or
\* set up the locals of the receive loop (the history is loaded at this point)
Authenticate ==
    /\ wsState = "AWAITING_AUTH"
    /\ \E in \in AuthInputs :
         LET r == authenticate_websocket(in) IN
         /\ authInput' = in
         /\ IF r.error_code /= None
            THEN _close_with_error(r.error_code)
            ELSE /\ closeCode' = closeCode
                 /\ outbox' = IF r.ret \notin { None, "raise" }
                              THEN Append(outbox, make_auth_ok(r.ret))
                              ELSE outbox
         /\ wsState' = IF r.ret \in { None, "raise" } THEN "CLOSED" ELSE "ACTIVE"
         /\ exitPath' = CASE r.ret = "raise" -> "auth_exception"
                          [] r.ret = None -> "auth_failed"
                          [] OTHER -> ""
         /\ pc' = IF r.ret \in { None, "raise" } THEN "done" ELSE "recv"
    /\ UNCHANGED << client_state, person_id, request_id, audio_buffer,
                    pending_face_embedding, turn, response, turns, agentCalls, agentResult, frames,
                    bg, lastFrame >>
    /\ UNCHANGED notWsVars

----------------------------------------------------------------------------
\* ── ws_handlers/streaming.py: the receive loop of ws_interact ───────────

\* What websocket.receive() gives the loop.  A field the message does not have
\* (or has as null) is None: every field is read with .get and used through
\* `or` or a truth test, which treat the two alike.
BaseMsg ==
    [ frame |-> "text", bytes |-> << >>, raw |-> "object", type |-> "",
      request_id |-> None, person_id |-> None, face_embedding |-> None,
      content |-> None, known |-> None, data |-> None, text |-> None,
      audio |-> None, image |-> None, video |-> None ]

Msg(type) == [ BaseMsg EXCEPT !.type = type ]

Fragments == { << >>, << "a1" >>, << "a2" >> }

\* The fields of a JSON object of each type: request_id, then the others.
Start(r, p, e) ==
    [ Msg("interaction_start") EXCEPT !.request_id = r, !.person_id = p, !.face_embedding = e ]

Text(r, c, e) == [ Msg("text") EXCEPT !.request_id = r, !.content = c, !.face_embedding = e ]

AudioEnd(r, e) == [ Msg("audio_end") EXCEPT !.request_id = r, !.face_embedding = e ]

Image(r, d, t) == [ Msg("image") EXCEPT !.request_id = r, !.data = d, !.text = t ]

Video(r, d) == [ Msg("video") EXCEPT !.request_id = r, !.data = d ]

Multimodal(r, t, a, i) ==
    [ Msg("multimodal") EXCEPT !.request_id = r, !.text = t, !.audio = a, !.image = i ]

FaceScan(r) == [ Msg("face_scan_mode") EXCEPT !.request_id = r ]

PersonDetected(r, k, p) ==
    [ Msg("person_detected") EXCEPT !.request_id = r, !.known = k, !.person_id = p ]

Inbound ==
    { [ BaseMsg EXCEPT !.frame = "disconnect", !.raw = None ] }
    \cup { [ BaseMsg EXCEPT !.frame = "bytes", !.raw = None, !.bytes = b ] : b \in Fragments }
    \cup { [ BaseMsg EXCEPT !.raw = r ] : r \in { "empty", "invalid", "nonobject" } }
    \cup { Msg("bogus"), Msg("") }
    \cup { Start("r1", "ana", "e1"), Start(None, None, None), Start(None, "ana", None) }
    \cup { Text("r1", "hola", None), Text(None, "hola", "e2"), Text("r2", "hola", None),
           Text("r1", "", None), Text(None, "", "e2") }
    \cup { AudioEnd(None, None), AudioEnd("r2", "e2") }
    \cup { Image("r1", "b64", None), Image(None, "bad64", "mira"), Image(None, None, None) }
    \cup { Video("r2", "b64"), Video(None, None) }
    \cup { Multimodal("r1", "hola", None, None), Multimodal(None, None, "b64", None),
           Multimodal(None, "hola", None, "b64"), Multimodal(None, None, None, None) }
    \cup { FaceScan("r1"), FaceScan(None) }
    \cup { PersonDetected("r1", "true", "bob"), PersonDetected(None, "true", None),
           PersonDetected(None, "false", "ana"), PersonDetected("r1", None, None) }

\* base64.b64decode of a field, None when the field is falsy or does not decode
b64decode(raw) == IF Truthy(raw) /\ raw /= "bad64" THEN "bytes" ELSE None

\* next_request_id, were the connection's request_id to win over the message's
next_request_id_sticky(msg) ==
    IF ~ Truthy(request_id)
    THEN Or(msg.request_id, new_request_id)
    ELSE request_id

\* lines 142-145 (and the same in audio_end, image, video, multimodal)
next_request_id(msg) ==
    IF ~ Truthy(request_id)
    THEN Or(msg.request_id, new_request_id)
    ELSE Or(msg.request_id, request_id)

\* a loop that takes the next message without awaiting the turn in progress
AtReceive_any == TRUE

\* line 97: the loop reads the next message only when no turn is running,
\* because _process_interaction is awaited
AtReceive == pc = "recv"

Receiving(msg) ==
    /\ wsState = "ACTIVE"
    /\ AtReceive
    /\ frames < MaxFrames
    /\ frames' = frames + 1
    /\ lastFrame' = msg


\* a turn that calls the agent a second time
_process_interaction_twice(pid, rid, user_input, input_type, audio, image, video, emb, ctx) ==
    /\ turns < MaxTurns
    /\ turns' = turns + 1
    /\ turn' = [ n |-> turns + 1, person_id |-> pid, request_id |-> rid,
                 user_input |-> user_input, input_type |-> input_type,
                 audio_data |-> audio, image_data |-> image, video_data |-> video,
                 face_embedding_b64 |-> emb, memory_context |-> ctx ]
    /\ agentCalls' = agentCalls + 2
    /\ agentResult' = "pending"
    /\ pc' = "agent"

\* the call of _process_interaction, up to its await of run_agent
\* (_load_moji_context never raises: it returns {} on a failure)
_process_interaction(pid, rid, user_input, input_type, audio, image, video, emb, ctx) ==
    /\ turns < MaxTurns
    /\ turns' = turns + 1
    /\ turn' = [ n |-> turns + 1, person_id |-> pid, request_id |-> rid,
                 user_input |-> user_input, input_type |-> input_type,
                 audio_data |-> audio, image_data |-> image, video_data |-> video,
                 face_embedding_b64 |-> emb, memory_context |-> ctx ]
    /\ agentCalls' = agentCalls + 1
    /\ agentResult' = "pending"
    /\ pc' = "agent"

NoTurnStarted == UNCHANGED << turn, turns, agentCalls, agentResult, pc >>

\* lines 101-104
RecvDisconnect ==
    \E msg \in Inbound :
        /\ msg.frame = "disconnect"
        /\ Receiving(msg)
        /\ client_state' = "DISCONNECTED"
        /\ wsState' = "CLOSED"
        /\ exitPath' = "disconnect"
        /\ pc' = "done"
        /\ UNCHANGED << closeCode, outbox, person_id, request_id, audio_buffer,
                        pending_face_embedding, turn, response, turns, agentCalls, agentResult, bg,
                        authInput >>
        /\ UNCHANGED notWsVars

\* a binary frame that replaces the buffer instead of extending it
RecvBytes_replaces ==
    \E msg \in Inbound :
        /\ msg.frame = "bytes"
        /\ Receiving(msg)
        /\ audio_buffer' = IF msg.bytes /= << >> THEN msg.bytes ELSE audio_buffer
        /\ NoTurnStarted
        /\ UNCHANGED << wsState, client_state, closeCode, exitPath, outbox, person_id,
                        request_id, pending_face_embedding, response, bg, authInput >>
        /\ UNCHANGED notWsVars

\* lines 106-115: a binary frame; empty bytes fall through to `not raw_text`
RecvBytes ==
    \E msg \in Inbound :
        /\ msg.frame = "bytes"
        /\ Receiving(msg)
        /\ audio_buffer' = IF msg.bytes /= << >> THEN audio_buffer \o msg.bytes
                           ELSE audio_buffer
        /\ NoTurnStarted
        /\ UNCHANGED << wsState, client_state, closeCode, exitPath, outbox, person_id,
                        request_id, pending_face_embedding, response, bg, authInput >>
        /\ UNCHANGED notWsVars

\* lines 113-115: an empty text frame
RecvEmptyText ==
    \E msg \in Inbound :
        /\ msg.frame = "text" /\ msg.raw = "empty"
        /\ Receiving(msg)
        /\ NoTurnStarted
        /\ UNCHANGED << wsState, client_state, closeCode, exitPath, outbox, person_id,
                        request_id, audio_buffer, pending_face_embedding, response, bg,
                        authInput >>
        /\ UNCHANGED notWsVars

\* a handler that drops a text frame it cannot parse, as it drops an empty one
RecvInvalidJson_ignored ==
    \E msg \in Inbound :
        /\ msg.frame = "text" /\ msg.raw = "invalid"
        /\ Receiving(msg)
        /\ NoTurnStarted
        /\ UNCHANGED << wsState, client_state, closeCode, exitPath, outbox, person_id,
                        request_id, audio_buffer, pending_face_embedding, response, bg,
                        authInput >>
        /\ UNCHANGED notWsVars

\* lines 117-124: json.loads fails
RecvInvalidJson ==
    \E msg \in Inbound :
        /\ msg.frame = "text" /\ msg.raw = "invalid"
        /\ Receiving(msg)
        /\ outbox' = Append(outbox, make_error("INVALID_MESSAGE", 0, None, FALSE))
        /\ NoTurnStarted
        /\ UNCHANGED << wsState, client_state, closeCode, exitPath, person_id,
                        request_id, audio_buffer, pending_face_embedding, response, bg,
                        authInput >>
        /\ UNCHANGED notWsVars

\* an exit on an exception that tells the client nothing
LoopException_silent ==
    /\ outbox' = outbox
    /\ wsState' = "CLOSED"
    /\ exitPath' = "exception"
    /\ pc' = "done"

\* lines 328-340: an exception leaves the loop
LoopException ==
    /\ outbox' = IF client_state = "CONNECTED"
                 THEN Append(outbox, make_error("INTERNAL_ERROR", 0, None, FALSE))
                 ELSE outbox
    /\ wsState' = "CLOSED"
    /\ exitPath' = "exception"
    /\ pc' = "done"

\* line 126: msg.get on JSON that is no object raises AttributeError
RecvNonObject ==
    \E msg \in Inbound :
        /\ msg.frame = "text" /\ msg.raw = "nonobject"
        /\ Receiving(msg)
        /\ LoopException
        /\ UNCHANGED << client_state, closeCode, person_id, request_id, audio_buffer,
                        pending_face_embedding, turn, response, turns, agentCalls, agentResult, bg,
                        authInput >>
        /\ UNCHANGED notWsVars

ClientTypes ==
    { "interaction_start", "text", "audio_end", "image", "video", "multimodal",
      "face_scan_mode", "person_detected" }

IsObject(msg, type) == msg.frame = "text" /\ msg.raw = "object" /\ msg.type = type

\* lines 126-326: no branch of the if/elif chain matches the type
RecvUnknownType ==
    \E msg \in Inbound :
        /\ msg.frame = "text" /\ msg.raw = "object" /\ msg.type \notin ClientTypes
        /\ Receiving(msg)
        /\ NoTurnStarted
        /\ UNCHANGED << wsState, client_state, closeCode, exitPath, outbox, person_id,
                        request_id, audio_buffer, pending_face_embedding, response, bg,
                        authInput >>
        /\ UNCHANGED notWsVars

\* an interaction_start that keeps the audio received before it
RecvInteractionStart_keeps_audio ==
    \E msg \in Inbound :
        /\ IsObject(msg, "interaction_start")
        /\ Receiving(msg)
        /\ person_id' = Or(msg.person_id, None)
        /\ request_id' = Or(msg.request_id, new_request_id)
        /\ pending_face_embedding' = Or(msg.face_embedding, None)
        /\ NoTurnStarted
        /\ UNCHANGED << wsState, client_state, closeCode, exitPath, outbox, audio_buffer,
                        response, bg, authInput >>
        /\ UNCHANGED notWsVars

\* lines 128-138
RecvInteractionStart ==
    \E msg \in Inbound :
        /\ IsObject(msg, "interaction_start")
        /\ Receiving(msg)
        /\ person_id' = Or(msg.person_id, None)
        /\ request_id' = Or(msg.request_id, new_request_id)
        /\ audio_buffer' = << >>
        /\ pending_face_embedding' = Or(msg.face_embedding, None)
        /\ NoTurnStarted
        /\ UNCHANGED << wsState, client_state, closeCode, exitPath, outbox, response, bg,
                        authInput >>
        /\ UNCHANGED notWsVars

\* lines 140-158
RecvText ==
    \E msg \in Inbound :
        /\ IsObject(msg, "text")
        /\ Receiving(msg)
        /\ request_id' = next_request_id(msg)
        /\ pending_face_embedding' = None
        /\ IF Truthy(msg.content)
           THEN _process_interaction(person_id, next_request_id(msg), msg.content, "text",
                                     NoneBytes, None, None,
                                     Or(msg.face_embedding, pending_face_embedding), None)
           ELSE NoTurnStarted
        /\ UNCHANGED << wsState, client_state, closeCode, exitPath, outbox, person_id,
                        audio_buffer, response, bg, authInput >>
        /\ UNCHANGED notWsVars

\* an audio_end handler that does not test the buffer
has_audio_always == TRUE


\* line 168: `if audio_buffer:`
has_audio == audio_buffer /= << >>

\* lines 160-190
RecvAudioEnd ==
    \E msg \in Inbound :
        /\ IsObject(msg, "audio_end")
        /\ Receiving(msg)
        /\ request_id' = next_request_id(msg)
        /\ pending_face_embedding' = None
        /\ IF has_audio
           THEN /\ audio_buffer' = << >>
                /\ _process_interaction(person_id, next_request_id(msg), None, "audio",
                                        audio_buffer, None, None,
                                        Or(msg.face_embedding, pending_face_embedding), None)
                /\ outbox' = outbox
           ELSE /\ outbox' = Append(outbox,
                                    make_error("EMPTY_AUDIO", 0, next_request_id(msg), TRUE))
                /\ audio_buffer' = audio_buffer
                /\ NoTurnStarted
        /\ UNCHANGED << wsState, client_state, closeCode, exitPath, person_id, response,
                        bg, authInput >>
        /\ UNCHANGED notWsVars

\* lines 192-216
RecvImage ==
    \E msg \in Inbound :
        /\ IsObject(msg, "image")
        /\ Receiving(msg)
        /\ request_id' = next_request_id(msg)
        /\ pending_face_embedding' = None
        /\ _process_interaction(person_id, next_request_id(msg), Or(msg.text, None), "vision",
                                NoneBytes, b64decode(msg.data), None,
                                Or(msg.face_embedding, pending_face_embedding), None)
        /\ UNCHANGED << wsState, client_state, closeCode, exitPath, outbox, person_id,
                        audio_buffer, response, bg, authInput >>
        /\ UNCHANGED notWsVars

\* lines 218-239: the pending face embedding is neither passed nor cleared
RecvVideo ==
    \E msg \in Inbound :
        /\ IsObject(msg, "video")
        /\ Receiving(msg)
        /\ request_id' = next_request_id(msg)
        /\ _process_interaction(person_id, next_request_id(msg), Or(msg.text, None), "vision",
                                NoneBytes, None, b64decode(msg.data), None, None)
        /\ UNCHANGED << wsState, client_state, closeCode, exitPath, outbox, person_id,
                        audio_buffer, pending_face_embedding, response, bg, authInput >>
        /\ UNCHANGED notWsVars

\* lines 241-285
RecvMultimodal ==
    \E msg \in Inbound :
        /\ IsObject(msg, "multimodal")
        /\ Receiving(msg)
        /\ request_id' = next_request_id(msg)
        /\ pending_face_embedding' = None
        /\ LET mm_audio == b64decode(msg.audio)
               mm_image == b64decode(msg.image)
               mm_video == b64decode(msg.video)
               input_type_mm == IF mm_image /= None \/ mm_video /= None THEN "vision"
                                ELSE IF mm_audio /= None THEN "audio" ELSE "text"
           IN _process_interaction(person_id, next_request_id(msg), Or(msg.text, None),
                                   input_type_mm,
                                   IF mm_audio = None THEN NoneBytes ELSE << mm_audio >>,
                                   mm_image, mm_video,
                                   Or(msg.face_embedding, pending_face_embedding), None)
        /\ UNCHANGED << wsState, client_state, closeCode, exitPath, outbox, person_id,
                        audio_buffer, response, bg, authInput >>
        /\ UNCHANGED notWsVars

\* a face_scan_mode handler that answers under the connection's request_id
RecvFaceScanMode_sticky ==
    \E msg \in Inbound :
        /\ IsObject(msg, "face_scan_mode")
        /\ Receiving(msg)
        /\ LET req_id == Or(request_id, new_request_id)
               scan_seq == << build_move_sequence("Escaneo facial", _FACE_SCAN_SEQUENCE) >>
           IN outbox' = Append(outbox, make_face_scan_actions(req_id, scan_seq))
        /\ NoTurnStarted
        /\ UNCHANGED << wsState, client_state, closeCode, exitPath, person_id,
                        request_id, audio_buffer, pending_face_embedding, response, bg,
                        authInput >>
        /\ UNCHANGED notWsVars

\* lines 289-296
RecvFaceScanMode ==
    \E msg \in Inbound :
        /\ IsObject(msg, "face_scan_mode")
        /\ Receiving(msg)
        /\ LET req_id == Or(msg.request_id, new_request_id)
               scan_seq == << build_move_sequence("Escaneo facial", _FACE_SCAN_SEQUENCE) >>
           IN outbox' = Append(outbox, make_face_scan_actions(req_id, scan_seq))
        /\ NoTurnStarted
        /\ UNCHANGED << wsState, client_state, closeCode, exitPath, person_id,
                        request_id, audio_buffer, pending_face_embedding, response, bg,
                        authInput >>
        /\ UNCHANGED notWsVars

\* a person_detected handler that greets a known person as it does a stranger
RecvPersonDetected_greeting ==
    \E msg \in Inbound :
        /\ IsObject(msg, "person_detected")
        /\ Receiving(msg)
        /\ person_id' = IF msg.known = "true" /\ Truthy(msg.person_id)
                        THEN msg.person_id ELSE person_id
        /\ _process_interaction(None, Or(msg.request_id, new_request_id), "ask_name",
                                "text", NoneBytes, None, None, None, "loaded")
        /\ UNCHANGED << wsState, client_state, closeCode, exitPath, outbox, request_id,
                        audio_buffer, pending_face_embedding, response, bg, authInput >>
        /\ UNCHANGED notWsVars

\* lines 298-326
RecvPersonDetected ==
    \E msg \in Inbound :
        /\ IsObject(msg, "person_detected")
        /\ Receiving(msg)
        /\ IF msg.known = "true" /\ Truthy(msg.person_id)
           THEN /\ person_id' = msg.person_id
                /\ NoTurnStarted
           ELSE /\ person_id' = person_id
                /\ _process_interaction(None, Or(msg.request_id, new_request_id), "ask_name",
                                        "text", NoneBytes, None, None, None, "loaded")
        /\ UNCHANGED << wsState, client_state, closeCode, exitPath, outbox, request_id,
                        audio_buffer, pending_face_embedding, response, bg, authInput >>
        /\ UNCHANGED notWsVars

----------------------------------------------------------------------------
\* ── services/expression.py ──────────────────────────────────────────────

EMOTION_TO_EMOJIS ==
    [ tag \in { "happy", "greeting", "neutral" } |->
        CASE tag = "happy" -> << "1F600", "1F603", "1F604", "1F60A" >>
          [] tag = "greeting" -> << "1F44B", "1F917" >>
          [] tag = "neutral" -> << "1F642", "1F916" >> ]

emotion_to_emojis(tag) ==
    IF tag \in DOMAIN EMOTION_TO_EMOJIS THEN EMOTION_TO_EMOJIS[tag]
    ELSE EMOTION_TO_EMOJIS["neutral"]

\* xs[:n]
Take(xs, n) == SubSeq(xs, 1, IF Len(xs) < n THEN Len(xs) ELSE n)

----------------------------------------------------------------------------
\* ── ws_handlers/streaming.py: _process_interaction after run_agent ──────

\* What run_agent can return (services/agent.py, MojiResponse).
Response(emotion, response_text, new_memories, person_name, emojis, media_summary) ==
    [ emotion |-> emotion, response_text |-> response_text, memories |-> new_memories,
      person_name |-> person_name, emojis |-> emojis, media_summary |-> media_summary ]

OneMemory == << [ memory_type |-> "general", content |-> << "x" >> ] >>

Responses ==
    { Response("happy", << "o", "k" >>, << >>, None, << "1F44B" >>, None),
      Response("happy", << >>, << >>, None, << >>, None),
      Response("raro", << "F", "i", "l", "m", "a" >>, OneMemory, None, << >>, "resumen"),
      Response("greeting", << "P", "u", "e", "d", "o", " ", "v", "e", "r" >>, << >>, "Ana",
               << "1F44B" >>, None),
      Response("neutral", << "o", "k" >>, OneMemory, "Ana", << >>, "resumen") }

\* A background task: what it runs, the turn that created it, whether it has
\* failed, and whether it failed while that turn was still replying.
Task(kind, t, arg) == [ kind |-> kind, turn |-> t, status |-> "scheduled", early |-> FALSE ]

has_media == turn.audio_data /= NoneBytes \/ turn.image_data /= None \/ turn.video_data /= None

has_face_embedding == turn.face_embedding_b64 /= None

\* lines 384-398 and 417-425: run_agent returns and the emotion is sent
AgentReturn ==
    /\ wsState = "ACTIVE" /\ pc = "agent"
    /\ \E r \in Responses :
         /\ response' = r
         /\ outbox' = Append(outbox, make_emotion(turn.n, turn.request_id, r.emotion))
    /\ agentResult' = "returned"
    /\ pc' = "text"
    /\ UNCHANGED << wsState, client_state, closeCode, exitPath, person_id, request_id,
                    audio_buffer, pending_face_embedding, turn, turns, agentCalls, frames,
                    bg, lastFrame, authInput >>
    /\ UNCHANGED notWsVars

\* the error handler without its return: the turn goes on to the text step
after_agent_error_fallthrough == "text"


\* line 415: the `return` that ends the turn after the AGENT_ERROR event
after_agent_error == "recv"

\* lines 399-415: run_agent raises
AgentFail ==
    /\ wsState = "ACTIVE" /\ pc = "agent"
    /\ outbox' = Append(outbox, make_error("AGENT_ERROR", turn.n, turn.request_id, TRUE))
    /\ agentResult' = "raised"
    /\ pc' = after_agent_error
    /\ turn' = IF after_agent_error = "recv" THEN NoTurn ELSE turn
    /\ UNCHANGED << wsState, client_state, closeCode, exitPath, person_id, request_id,
                    audio_buffer, pending_face_embedding, response, turns, agentCalls,
                    frames, bg, lastFrame, authInput >>
    /\ UNCHANGED notWsVars

\* a text step that sends the chunk whether or not there is text
SendTextChunk_always ==
    /\ wsState = "ACTIVE" /\ pc = "text"
    /\ outbox' = Append(outbox, make_text_chunk(turn.n, turn.request_id,
                                                response.response_text))
    /\ pc' = "persist"
    /\ UNCHANGED << wsState, client_state, closeCode, exitPath, person_id, request_id,
                    audio_buffer, pending_face_embedding, turn, response, turns,
                    agentCalls, agentResult, frames, bg, lastFrame, authInput >>
    /\ UNCHANGED notWsVars

\* lines 427-429
SendTextChunk ==
    /\ wsState = "ACTIVE" /\ pc = "text"
    /\ outbox' = IF response.response_text /= << >>
                 THEN Append(outbox, make_text_chunk(turn.n, turn.request_id,
                                                     response.response_text))
                 ELSE outbox
    /\ pc' = "persist"
    /\ UNCHANGED << wsState, client_state, closeCode, exitPath, person_id, request_id,
                    audio_buffer, pending_face_embedding, turn, response, turns,
                    agentCalls, agentResult, frames, bg, lastFrame, authInput >>
    /\ UNCHANGED notWsVars

\* lines 431-451: the tasks created for the memories and for the person name
persistence_tasks ==
    [ i \in 1..Len(response.memories) |-> Task("memory", turn.n, None) ]
    \o ( IF has_face_embedding /\ Truthy(turn.face_embedding_b64) /\ Truthy(response.person_name)
         THEN << Task("person", turn.n, None) >>
         ELSE << >> )

\* lines 431-458: the tasks are created, then the capture request is sent
SendCaptureRequest ==
    /\ wsState = "ACTIVE" /\ pc = "persist"
    /\ bg' = bg \o persistence_tasks
    /\ LET intent == classify_intent(response.response_text) IN
       outbox' = CASE intent = "photo_request" ->
                        Append(outbox, make_capture_request(turn.n, turn.request_id, "photo"))
                   [] intent = "video_request" ->
                        Append(outbox, make_capture_request(turn.n, turn.request_id, "video"))
                   [] OTHER -> outbox
    /\ pc' = "meta"
    /\ UNCHANGED << wsState, client_state, closeCode, exitPath, person_id, request_id,
                    audio_buffer, pending_face_embedding, turn, response, turns,
                    agentCalls, agentResult, frames, lastFrame, authInput >>
    /\ UNCHANGED notWsVars

\* the emojis, were the emotion's defaults only a backfill of at most 2
response_emojis_backfilled ==
    LET emotion_emojis == emotion_to_emojis(response.emotion) IN
    IF response.emojis /= << >> THEN response.emojis ELSE Take(emotion_emojis, 2)

\* lines 462-465
response_emojis ==
    LET emotion_emojis == emotion_to_emojis(response.emotion) IN
    IF response.emojis /= << >> THEN response.emojis \o Take(emotion_emojis, 2)
    ELSE emotion_emojis

\* lines 460-484
SendResponseMeta ==
    /\ wsState = "ACTIVE" /\ pc = "meta"
    /\ outbox' = Append(outbox, make_response_meta(turn.n, turn.request_id, response_emojis))
    /\ pc' = "end"
    /\ UNCHANGED << wsState, client_state, closeCode, exitPath, person_id, request_id,
                    audio_buffer, pending_face_embedding, turn, response, turns,
                    agentCalls, agentResult, frames, bg, lastFrame, authInput >>
    /\ UNCHANGED notWsVars

\* lines 486-518: stream_end, then the history and compaction tasks are created
\* and the call returns to the loop
SendStreamEnd ==
    /\ wsState = "ACTIVE" /\ pc = "end"
    /\ outbox' = Append(outbox, make_stream_end(turn.n, turn.request_id))
    /\ bg' = bg \o << Task("history", turn.n, None), Task("compact-memories", turn.n, None) >>
    /\ turn' = NoTurn
    /\ response' = NoResponse
    /\ pc' = "recv"
    /\ UNCHANGED << wsState, client_state, closeCode, exitPath, person_id, request_id,
                    audio_buffer, pending_face_embedding, turns, agentCalls, agentResult, frames,
                    lastFrame, authInput >>
    /\ UNCHANGED notWsVars

\* background tasks of one connection that fail
MaxFailures == 2

\* a task whose failure is told to the client
BgFails_reporting ==
    /\ Cardinality({ k \in 1..Len(bg) : bg[k].status = "failed" }) < MaxFailures
    /\ \E k \in 1..Len(bg) :
         /\ bg[k].status = "scheduled"
         /\ bg' = [ bg EXCEPT ![k].status = "failed", ![k].early = ( turn.n = bg[k].turn ) ]
    /\ outbox' = Append(outbox, make_error("INTERNAL_ERROR", 0, None, FALSE))
    /\ UNCHANGED << wsState, client_state, closeCode, exitPath, person_id, request_id,
                    audio_buffer, pending_face_embedding, pc, turn, response, turns,
                    agentCalls, agentResult, frames, lastFrame, authInput >>
    /\ UNCHANGED notWsVars

\* A background task ends on an exception: _save_memory_bg (lines 539-557),
\* _save_person_name_bg (lines 560-586), _save_history_bg (lines 524-536) and
\* compact_memories_async (memory_compaction.py lines 123-180) each catch it
\* and log it, and none has a reference to the websocket.  (A task that ends
\* well changes nothing of the connection either; what it writes to the
\* tables is the matter of the components below.)
BgFails ==
    /\ Cardinality({ k \in 1..Len(bg) : bg[k].status = "failed" }) < MaxFailures
    /\ \E k \in 1..Len(bg) :
         /\ bg[k].status = "scheduled"
         /\ bg' = [ bg EXCEPT ![k].status = "failed", ![k].early = ( turn.n = bg[k].turn ) ]
    /\ outbox' = outbox
    /\ UNCHANGED << wsState, client_state, closeCode, exitPath, person_id, request_id,
                    audio_buffer, pending_face_embedding, pc, turn, response, turns,
                    agentCalls, agentResult, frames, lastFrame, authInput >>
    /\ UNCHANGED notWsVars

WSNext ==
    \/ Accept
    \/ Authenticate
    \/ RecvDisconnect
    \/ RecvBytes
    \/ RecvEmptyText
    \/ RecvInvalidJson
    \/ RecvNonObject
    \/ RecvUnknownType
    \/ RecvInteractionStart
    \/ RecvText
    \/ RecvAudioEnd
    \/ RecvImage
    \/ RecvVideo
    \/ RecvMultimodal
    \/ RecvFaceScanMode
    \/ RecvPersonDetected
    \/ AgentReturn
    \/ AgentFail
    \/ SendTextChunk
    \/ SendCaptureRequest
    \/ SendResponseMeta
    \/ SendStreamEnd



----------------------------------------------------------------------------
\* ── repositories/memory.py: the memory store ────────────────────────────

\* lines 33-65
_PRIVACY_KEYWORDS ==
    { <<"c", "o", "n", "t", "r", "a", "s", "e", "~n", "a">>,
      <<"p", "a", "s", "s", "w", "o", "r", "d">>,
      <<"c", "l", "a", "v", "e">>,
      <<"p", "i", "n">>,
      <<"t", "a", "r", "j", "e", "t", "a">>,
      <<"c", "r", "'e", "d", "i", "t", "o">>,
      <<"d", "'e", "b", "i", "t", "o">>,
      <<"c", "u", "e", "n", "t", "a", " ", "b", "a", "n", "c", "a", "r", "i", "a">>,
      <<"d", "n", "i">>,
      <<"p", "a", "s", "a", "p", "o", "r", "t", "e">>,
      <<"n", "'u", "m", "e", "r", "o", " ", "d", "e", " ", "s", "e", "g", "u", "r", "i", "d", "a", "d">>,
      <<"s", "e", "g", "u", "r", "i", "d", "a", "d", " ", "s", "o", "c", "i", "a", "l">>,
      <<"d", "i", "r", "e", "c", "c", "i", "'o", "n">>,
      <<"d", "o", "m", "i", "c", "i", "l", "i", "o">>,
      <<"m", "e", "d", "i", "c", "a", "m", "e", "n", "t", "o">>,
      <<"d", "i", "a", "g", "n", "'o", "s", "t", "i", "c", "o">>,
      <<"e", "n", "f", "e", "r", "m", "e", "d", "a", "d">>,
      <<"t", "r", "a", "t", "a", "m", "i", "e", "n", "t", "o">>,
      <<"a", "d", "d", "r", "e", "s", "s">>,
      <<"p", "a", "s", "s", "p", "o", "r", "t">>,
      <<"c", "r", "e", "d", "i", "t", " ", "c", "a", "r", "d">>,
      <<"d", "e", "b", "i", "t", " ", "c", "a", "r", "d">>,
      <<"b", "a", "n", "k", " ", "a", "c", "c", "o", "u", "n", "t">>,
      <<"s", "o", "c", "i", "a", "l", " ", "s", "e", "c", "u", "r", "i", "t", "y">>,
      <<"m", "e", "d", "i", "c", "a", "t", "i", "o", "n">>,
      <<"d", "i", "a", "g", "n", "o", "s", "i", "s">> }

\* a filter that compares the content as written
is_private_as_written(content) ==
    \E kw \in _PRIVACY_KEYWORDS : Contains(content, kw)

\* is_private, lines 68-74
is_private(content) ==
    LET lower == Lower(content) IN
    \E kw \in _PRIVACY_KEYWORDS : Contains(lower, kw)

\* A nullable column that holds a number: NULL, or << n >>
NULL == << >>

\* A row of the table.  The table fills in id and timestamp at the insert.
MemoryRow(id, pid, zone_id, memory_type, content, importance, timestamp, expires_at) ==
    [ id |-> id, person_id |-> pid, zone_id |-> zone_id, memory_type |-> memory_type,
      content |-> content, importance |-> importance, timestamp |-> timestamp,
      expires_at |-> expires_at ]

\* The table as the repository's calls see it and leave it
DB == [ rows |-> memories, next_id |-> mem_next_id, clock |-> now ]

\* MemoryRepository.save, lines 100-132: ret is << >> for None, << entity >> otherwise
save(db, memory_type, content, pid, zone_id, importance, expires_at) ==
    IF is_private(content)
    THEN [ db |-> db, ret |-> << >> ]
    ELSE LET row == MemoryRow(db.next_id, pid, zone_id, memory_type, content,
                              importance, db.clock, expires_at)
         IN [ db |-> [ rows |-> db.rows \cup { row },
                       next_id |-> db.next_id + 1,
                       clock |-> db.clock + 1 ],
              ret |-> << row >> ]

\* MemoryRepository.delete, lines 284-294
delete(db, memory_id) ==
    IF \E m \in db.rows : m.id = memory_id
    THEN [ db |-> [ db EXCEPT !.rows = { m \in db.rows : m.id /= memory_id } ],
           ret |-> << TRUE >> ]
    ELSE [ db |-> db, ret |-> << FALSE >> ]

\* MemoryRepository.delete_for_person, lines 296-303
delete_for_person(db, pid) ==
    [ db |-> [ db EXCEPT !.rows = { m \in db.rows : m.person_id /= pid } ],
      ret |-> << Cardinality({ m \in db.rows : m.person_id = pid }) >> ]

\* a replace_with_compacted that tests the content before it deletes
replace_with_compacted_checked(db, old_ids, memory_type, content, pid, zone_id, importance) ==
    IF is_private(content)
    THEN [ db |-> db, ret |-> << >> ]
    ELSE save([ db EXCEPT !.rows = { m \in db.rows : m.id \notin old_ids } ],
              memory_type, content, pid, zone_id, importance, NULL)

\* MemoryRepository.replace_with_compacted, lines 305-331: the old rows are
\* deleted, then save is called
replace_with_compacted(db, old_ids, memory_type, content, pid, zone_id, importance) ==
    save([ db EXCEPT !.rows = { m \in db.rows : m.id \notin old_ids } ],
         memory_type, content, pid, zone_id, importance, NULL)

\* the filter of the queries that leave out expired rows, lines 118-122
active(m, t) == m.expires_at = NULL \/ m.expires_at[1] > t

\* Calls made on the repository: bounded in number
MaxMemOps == 3

\* type, owner, importance and expiry given to a save
MemAttrs ==
    { [ memory_type |-> "general", person_id |-> None, importance |-> 5, expires_at |-> NULL ],
      [ memory_type |-> "person_fact", person_id |-> "ana", importance |-> 10,
        expires_at |-> NULL ],
      [ memory_type |-> "experience", person_id |-> None, importance |-> 1,
        expires_at |-> << 0 >> ] }

\* contents given to a save
MemContents ==
    { <<"l", "e", " ", "g", "u", "s", "t", "a", " ", "e", "l", " ", "c", "a", "f", "e">>,
      <<"s", "u", " ", "p", "i", "n", " ", "e", "s", " ", "1", "2">>,
      <<"S", "u", " ", "P", "I", "N">>,
      <<"M", "i", " ", "C", "l", "a", "v", "e">>,
      <<"C", "R", "'E", "D", "I", "T", "O">>,
      <<"p", "i", " ", "n">>,
      <<"D", "N", "I", " ", "7">>,
      <<"p">> }

NoMemOp == [ n |-> 0, op |-> None, content |-> << >>, ret |-> << >> ]

MemInit ==
    /\ memories = { }
    /\ mem_next_id = 1
    /\ now = 1
    /\ memOp = NoMemOp

\* what a call leaves: the table, and the call as the last one made
Commit(r, op, content) ==
    /\ memories' = r.db.rows
    /\ mem_next_id' = r.db.next_id
    /\ now' = r.db.clock
    /\ memOp' = [ n |-> memOp.n + 1, op |-> op, content |-> content, ret |-> r.ret ]

notMemVars == << wsVars, cmpVars, zoneVars, histVars, moreVars >>

Save ==
    /\ memOp.n < MaxMemOps
    /\ \E a \in MemAttrs, c \in MemContents :
         Commit(save(DB, a.memory_type, c, a.person_id, NULL, a.importance, a.expires_at),
                "save", c)
    /\ UNCHANGED notMemVars

Delete ==
    /\ memOp.n < MaxMemOps
    /\ \E memory_id \in 1..mem_next_id : Commit(delete(DB, memory_id), "delete", << >>)
    /\ UNCHANGED notMemVars

DeleteForPerson ==
    /\ memOp.n < MaxMemOps
    /\ \E pid \in { "ana", "luis" } :
         Commit(delete_for_person(DB, pid), "delete_for_person", << >>)
    /\ UNCHANGED notMemVars

ReplaceWithCompacted ==
    /\ memOp.n < MaxMemOps
    /\ \E old_ids \in SUBSET (1..mem_next_id), a \in MemAttrs, c \in MemContents :
         Commit(replace_with_compacted(DB, old_ids, a.memory_type, c, a.person_id, NULL,
                                       a.importance),
                "replace_with_compacted", c)
    /\ UNCHANGED notMemVars

MemNext == Save \/ Delete \/ DeleteForPerson \/ ReplaceWithCompacted

----------------------------------------------------------------------------
\* ── services/memory_compaction.py ───────────────────────────────────────

\* line 37
COMPACTION_THRESHOLD == 8

\* line 40
COMPACTED_IMPORTANCE == 7

\* order_by(importance desc, timestamp desc) of the queries, and the key of
\* group.sort at line 161; rows equal in both keep the order of their ids
Precedes(a, b) ==
    \/ a.importance > b.importance
    \/ a.importance = b.importance /\ a.timestamp > b.timestamp
    \/ a.importance = b.importance /\ a.timestamp = b.timestamp /\ a.id < b.id

RECURSIVE Ordered(_)
Ordered(S) ==
    IF S = { } THEN << >>
    ELSE LET first == CHOOSE m \in S : \A o \in S \ { m } : Precedes(m, o)
         IN << first >> \o Ordered(S \ { first })

\* MemoryRepository.get_for_person(person_id, include_expired=False), lines 134-162
get_for_person(db, pid) ==
    Ordered({ m \in db.rows : m.person_id = pid /\ active(m, db.clock) })

\* MemoryRepository.get_general(include_expired=False), lines 164-192
get_general(db) ==
    Ordered({ m \in db.rows : m.person_id = None /\ active(m, db.clock) })

\* the keys of by_type, in the order the loop of lines 152-153 inserts them
RECURSIVE Keys(_, _)
Keys(ms, seen) ==
    IF ms = << >> THEN << >>
    ELSE IF Head(ms).memory_type \in seen THEN Keys(Tail(ms), seen)
    ELSE << Head(ms).memory_type >> \o Keys(Tail(ms), seen \cup { Head(ms).memory_type })

\* by_type[memory_type]
RECURSIVE OfType(_, _)
OfType(ms, memory_type) ==
    IF ms = << >> THEN << >>
    ELSE IF Head(ms).memory_type = memory_type
    THEN << Head(ms) >> \o OfType(Tail(ms), memory_type)
    ELSE OfType(Tail(ms), memory_type)

\* a threshold test that compacts a group once it has reached the threshold
over_threshold_inclusive(n) == n >= COMPACTION_THRESHOLD

\* line 157, negated: the group is compacted
over_threshold(n) == n > COMPACTION_THRESHOLD

\* the loop body, were only the most salient memory held out
GroupWork_keep_one(group) ==
    IF ~ over_threshold(Len(group)) THEN << >>
    ELSE LET to_keep == SubSeq(group, 1, 1)
             to_compact == SubSeq(group, 2, Len(group))
         IN IF Len(to_compact) < 2 THEN << >>
            ELSE << [ memory_type |-> group[1].memory_type,
                      to_keep |-> to_keep, to_compact |-> to_compact ] >>

\* lines 156-169: what the loop does with one group, None when it is skipped
GroupWork(group) ==
    IF ~ over_threshold(Len(group)) THEN << >>
    ELSE LET to_keep == SubSeq(group, 1, 2)
             to_compact == SubSeq(group, 3, Len(group))
         IN IF Len(to_compact) < 2 THEN << >>
            ELSE << [ memory_type |-> group[1].memory_type,
                      to_keep |-> to_keep, to_compact |-> to_compact ] >>

RECURSIVE Work(_, _)
Work(ms, keys) ==
    IF keys = << >> THEN << >>
    ELSE GroupWork(OfType(ms, Head(keys))) \o Work(ms, Tail(keys))

\* What model.ainvoke gives _compact_group: an exception, or a text
Raised == [ kind |-> "raise", text |-> << >> ]

Returned(text) == [ kind |-> "text", text |-> text ]

LLMOutcomes ==
    { Raised } \cup { Returned(t) : t \in { <<" ", "A", "n", "a", " ", "a", "m", "a", " ", "e", "l", " ", "c", "a", "f", "e", " ">>,
                                  <<" ", " ">>,
                                  << >>,
                                  <<"S", "u", " ", "P", "I", "N", " ", "e", "s", " ", "1">> } }

\* Bounds of the compaction runs
MaxPasses == 1

MaxGroup == 10

Subjects == { None, "ana" }

\* A group of n active rows of one subject and one type, as earlier saves left it
Importance(pattern, i) ==
    CASE pattern = "flat" -> 5
      [] pattern = "oldest-first" -> IF i <= 2 THEN 9 ELSE 4
      [] OTHER -> 1 + ((i * 3) % 7)

StoredGroup(pid, memory_type, n, base, pattern) ==
    { MemoryRow(base + i, pid, NULL, memory_type, << "o", "k" >>, Importance(pattern, i),
                base + i, NULL) : i \in 1..n }

\* the table before any pass: groups on both sides of the threshold, and
\* possibly one expired row in the first group
CompactInit ==
    /\ \E n1 \in (COMPACTION_THRESHOLD - 1)..MaxGroup,
          n2 \in { 0, COMPACTION_THRESHOLD + 1 },
          pattern \in { "flat", "oldest-first", "mixed" },
          expired \in BOOLEAN :
         memories = StoredGroup("ana", "person_fact", n1, 0, pattern)
                    \cup StoredGroup("ana", "experience", n2, 20, "flat")
                    \cup StoredGroup(None, "general", COMPACTION_THRESHOLD + 1, 40, "mixed")
                    \cup ( IF expired
                           THEN { MemoryRow(60, "ana", NULL, "person_fact", << "o", "k" >>,
                                            10, 60, << 70 >>) }
                           ELSE { } )
    /\ mem_next_id = 100
    /\ now = 100
    /\ memOp = NoMemOp
    /\ passes = << >>
    /\ llm_calls = << >>

CmpIdle ==
    /\ passes = << >>
    /\ llm_calls = << >>

notCmpVars == << wsVars, zoneVars, histVars, moreVars >>

\* asyncio.create_task(compact_memories_async(person_id)), streaming.py lines 514-517
StartPass ==
    /\ Len(passes) < MaxPasses
    /\ \E pid \in Subjects :
         passes' = Append(passes, [ person_id |-> pid, pc |-> "load",
                                    memories |-> << >>, work |-> << >> ])
    /\ UNCHANGED << memVars, llm_calls >>
    /\ UNCHANGED notCmpVars

\* lines 138-153: the active memories of the subject are read and grouped
CompactLoad(p) ==
    /\ passes[p].pc = "load"
    /\ LET ms == IF passes[p].person_id /= None
                 THEN get_for_person(DB, passes[p].person_id)
                 ELSE get_general(DB)
           work == Work(ms, Keys(ms, { }))
       IN passes' = [ passes EXCEPT ![p].memories = ms,
                                    ![p].work = work,
                                    ![p].pc = IF work = << >> THEN "done" ELSE "compact" ]
    /\ UNCHANGED << memVars, llm_calls >>
    /\ UNCHANGED notCmpVars

\* a _compact_group whose failure ends the pass: the groups left are dropped
_compact_group_abort(p) ==
    /\ passes[p].pc = "compact"
    /\ LET w == Head(passes[p].work) IN
       \E out \in LLMOutcomes :
         LET compacted_text == Strip(out.text)
             old_ids == { w.to_compact[i].id : i \in 1..Len(w.to_compact) }
             failed == out.kind = "raise" \/ compacted_text = << >>
         IN /\ llm_calls' = Append(llm_calls, [ pass |-> p, memory_type |-> w.memory_type,
                                                n |-> Len(w.to_compact), out |-> out ])
            /\ IF failed
               THEN UNCHANGED memVars
               ELSE Commit(replace_with_compacted(DB, old_ids, w.memory_type, compacted_text,
                                                  passes[p].person_id, NULL,
                                                  COMPACTED_IMPORTANCE),
                           "replace_with_compacted", compacted_text)
            /\ passes' = [ passes EXCEPT ![p].work = IF failed THEN << >> ELSE Tail(@),
                                         ![p].pc = IF failed \/ Tail(passes[p].work) = << >>
                                                   THEN "done" ELSE "compact" ]
    /\ UNCHANGED notCmpVars

\* _compact_group, lines 68-117, for the next group over the threshold
_compact_group(p) ==
    /\ passes[p].pc = "compact"
    /\ LET w == Head(passes[p].work) IN
       \E out \in LLMOutcomes :
         LET compacted_text == Strip(out.text)
             old_ids == { w.to_compact[i].id : i \in 1..Len(w.to_compact) }
         IN /\ llm_calls' = Append(llm_calls, [ pass |-> p, memory_type |-> w.memory_type,
                                                n |-> Len(w.to_compact), out |-> out ])
            /\ IF out.kind = "raise" \/ compacted_text = << >>
               THEN UNCHANGED memVars
               ELSE Commit(replace_with_compacted(DB, old_ids, w.memory_type, compacted_text,
                                                  passes[p].person_id, NULL,
                                                  COMPACTED_IMPORTANCE),
                           "replace_with_compacted", compacted_text)
    /\ passes' = [ passes EXCEPT ![p].work = Tail(@),
                                 ![p].pc = IF Tail(passes[p].work) = << >>
                                           THEN "done" ELSE "compact" ]
    /\ UNCHANGED notCmpVars

\* Passes of one subject that may overlap: bounded in number
MaxRacing == 2

\* streaming.py lines 514-517, at the end of successive turns with one
\* person_id: a task is created whether or not an earlier one is still running
StartRacingPass ==
    /\ Len(passes) < MaxRacing
    /\ \E pid \in Subjects :
         /\ \A p \in 1..Len(passes) : passes[p].person_id = pid
         /\ passes' = Append(passes, [ person_id |-> pid, pc |-> "load",
                                       memories |-> << >>, work |-> << >> ])
    /\ UNCHANGED << memVars, llm_calls >>
    /\ UNCHANGED notCmpVars

Load == \E p \in 1..Len(passes) : CompactLoad(p)

CompactGroup == \E p \in 1..Len(passes) : _compact_group(p)

CompactNext == StartPass \/ Load \/ CompactGroup

----------------------------------------------------------------------------
\* ── repositories/zones.py: the zone graph ───────────────────────────────

\* The zones table: the id of each zone name (a name is held by one zone)
KnownZones ==
    [ name \in { "sala", "cocina", "patio" } |->
        CASE name = "sala" -> 1 [] name = "cocina" -> 2 [] OTHER -> 3 ]

\* names given to find_path: the known ones and one that no zone holds
QueryNames == DOMAIN KnownZones \cup { "garaje" }

\* rows of zone_paths: bounded in number
MaxPaths == 3

\* _row_to_path, lines 38-45
ZonePath(id, from_zone_id, to_zone_id) ==
    [ id |-> id, from_zone_id |-> from_zone_id, to_zone_id |-> to_zone_id ]

\* ZonesRepository.get_by_name, lines 85-91: << >> for None, << id >> otherwise
get_by_name(name) ==
    IF name \in DOMAIN KnownZones THEN << KnownZones[name] >> ELSE << >>

\* an adjacency list that takes a path in both directions
RECURSIVE adj_both_ways(_, _)
adj_both_ways(all_edges, zone_id) ==
    IF all_edges = << >> THEN << >>
    ELSE LET edge == Head(all_edges) IN
         ( IF edge.from_zone_id = zone_id
           THEN << [ edge |-> edge, neighbor_id |-> edge.to_zone_id ] >>
           ELSE IF edge.to_zone_id = zone_id
           THEN << [ edge |-> edge, neighbor_id |-> edge.from_zone_id ] >>
           ELSE << >> )
         \o adj_both_ways(Tail(all_edges), zone_id)

\* adj.get(zone_id, []), lines 240-242: (edge, to_zone_id) for the edges that
\* leave zone_id, in the order of all_edges
RECURSIVE adj(_, _)
adj(all_edges, zone_id) ==
    IF all_edges = << >> THEN << >>
    ELSE LET edge == Head(all_edges) IN
         ( IF edge.from_zone_id = zone_id
           THEN << [ edge |-> edge, neighbor_id |-> edge.to_zone_id ] >>
           ELSE << >> )
         \o adj(Tail(all_edges), zone_id)

\* the for loop of lines 252-259 over the edges of the zone taken from the queue
RECURSIVE Neighbors(_, _, _, _, _)
Neighbors(edges, path_so_far, goal, queue, visited) ==
    IF edges = << >>
    THEN [ found |-> FALSE, path |-> << >>, queue |-> queue, visited |-> visited ]
    ELSE LET edge == Head(edges).edge
             neighbor_id == Head(edges).neighbor_id
             new_path == Append(path_so_far, edge)
         IN IF neighbor_id \in visited
            THEN Neighbors(Tail(edges), path_so_far, goal, queue, visited)
            ELSE IF neighbor_id = goal
            THEN [ found |-> TRUE, path |-> new_path, queue |-> queue, visited |-> visited ]
            ELSE Neighbors(Tail(edges), path_so_far, goal,
                           Append(queue, [ id |-> neighbor_id, path |-> new_path ]),
                           visited \cup { neighbor_id })

\* the while loop of lines 250-261
RECURSIVE BFS(_, _, _, _)
BFS(all_edges, goal, queue, visited) ==
    IF queue = << >> THEN << >>
    ELSE LET current == Head(queue)
             r == Neighbors(adj(all_edges, current.id), current.path, goal,
                            Tail(queue), visited)
         IN IF r.found THEN r.path ELSE BFS(all_edges, goal, r.queue, r.visited)

\* ZonesRepository.find_path, lines 214-261
find_path(all_edges, from_zone_name, to_zone_name) ==
    LET from_zone == get_by_name(from_zone_name)
        to_zone == get_by_name(to_zone_name)
    IN IF from_zone = << >> \/ to_zone = << >> THEN << >>
       ELSE IF from_zone[1] = to_zone[1] THEN << >>
       ELSE BFS(all_edges, to_zone[1],
                << [ id |-> from_zone[1], path |-> << >> ] >>, { from_zone[1] })

NoQuery == [ from |-> None, to |-> None, all_edges |-> << >>, result |-> << >> ]

ZonesInit ==
    /\ zone_paths = << >>
    /\ path_query = NoQuery

notZoneVars == << wsVars, memVars, cmpVars, histVars, moreVars >>

\* ZonesRepository.add_path, lines 176-193
AddPath ==
    /\ Len(zone_paths) < MaxPaths
    /\ \E from_zone_id, to_zone_id \in { KnownZones[n] : n \in DOMAIN KnownZones } :
         zone_paths' = Append(zone_paths,
                              ZonePath(Len(zone_paths) + 1, from_zone_id, to_zone_id))
    /\ UNCHANGED path_query
    /\ UNCHANGED notZoneVars

FindPath ==
    /\ \E from_zone_name, to_zone_name \in QueryNames :
         path_query' = [ from |-> from_zone_name, to |-> to_zone_name,
                         all_edges |-> zone_paths,
                         result |-> find_path(zone_paths, from_zone_name, to_zone_name) ]
    /\ UNCHANGED zone_paths
    /\ UNCHANGED notZoneVars

ZonesNext == AddPath \/ FindPath

----------------------------------------------------------------------------
\* ── services/history.py: the conversation log ───────────────────────────

\* settings.CONVERSATION_COMPACTION_THRESHOLD, read at line 121; its default
CONVERSATION_COMPACTION_THRESHOLD == 20

\* line 143
keep == 5

\* _save_history_bg tasks: bounded in number
MaxSaves == 2

\* Sizes of the log that load_from_db finds when the connection starts
LoadedSizes == { 0, 17, 18 }

\* A cached message
Message(role, content, index) == [ role |-> role, content |-> content, index |-> index ]

\* A row of conversation_history
ConversationHistoryRow(role, content, message_index, is_compacted) ==
    [ role |-> role, content |-> content, message_index |-> message_index,
      is_compacted |-> is_compacted ]

\* Contents are told apart by who wrote them and when, not by their text
Content(tag, k) == << tag, k >>

\* f"[RESUMEN] {summary_text}", lines 188 and 198, for the summary of task k
Resumen(k) == Content("[RESUMEN] ", k)

RoleAt(i) == IF i % 2 = 1 THEN "user" ELSE "assistant"

\* load_from_db, lines 91-110: the cache is a new list of the rows
HistInit ==
    \E n \in LoadedSizes :
        /\ _cache = [ id |-> 0,
                      msgs |-> [ i \in 1..n |-> Message(RoleAt(i), Content("old", i), i - 1) ] ]
        /\ history_rows = [ i \in 1..n |->
                              ConversationHistoryRow(RoleAt(i), Content("old", i), i - 1,
                                                     FALSE) ]
        /\ save_tasks = << >>
        /\ compact_tasks = << >>
        /\ checks = << >>
        /\ crossings = 0

notHistVars == << wsVars, memVars, cmpVars, zoneVars, moreVars >>

\* a slice that drops the first `keep` messages
drop_first(msgs, n) == SubSeq(msgs, n + 1, Len(msgs))

\* msgs[-n:], line 145
last(msgs, n) == SubSeq(msgs, Len(msgs) - n + 1, Len(msgs))

\* msgs[:-n], line 144
all_but_last(msgs, n) == SubSeq(msgs, 1, Len(msgs) - n)

\* a test that waits until the threshold is passed
needs_compaction_strict(n) == n > CONVERSATION_COMPACTION_THRESHOLD

\* line 123
needs_compaction(n) == n >= CONVERSATION_COMPACTION_THRESHOLD

\* msgs.append on the list the caller holds: the cache, if it is still that list
append(cache, list_id, m) ==
    IF cache.id = list_id THEN [ cache EXCEPT !.msgs = Append(@, m) ] ELSE cache

\* the log grows from below the threshold to it
Crossed(before, after) ==
    IF Len(before.msgs) < CONVERSATION_COMPACTION_THRESHOLD
       /\ Len(after.msgs) >= CONVERSATION_COMPACTION_THRESHOLD
    THEN 1 ELSE 0

\* a _save_history_bg task that ended: its locals are gone
Ended(task, how) == [ task EXCEPT !.pc = how, !.list_id = 0, !.index = 0 ]

\* a _compact task that ended: its locals are gone
Finished(task, how) ==
    [ task EXCEPT !.pc = how, !.msgs = << >>, !.to_compact = << >>, !.to_keep = << >> ]

\* asyncio.create_task(_save_history_bg(...)), streaming.py lines 504-511
StartSave ==
    /\ Len(save_tasks) < MaxSaves
    /\ save_tasks' = Append(save_tasks, [ pc |-> "user", list_id |-> 0, index |-> 0 ])
    /\ UNCHANGED << _cache, history_rows, compact_tasks, checks, crossings >>
    /\ UNCHANGED notHistVars

\* add_message("user", ...), lines 65-79: the list and the index are taken,
\* then the commit is awaited
AddUserBegin(t) ==
    /\ save_tasks[t].pc = "user"
    /\ save_tasks' = [ save_tasks EXCEPT ![t].pc = "user-commit",
                                         ![t].list_id = _cache.id,
                                         ![t].index = Len(_cache.msgs) ]
    /\ UNCHANGED << _cache, history_rows, compact_tasks, checks, crossings >>
    /\ UNCHANGED notHistVars

\* lines 79-81 for the user message, then lines 65-79 for the assistant's
AddUserCommit(t) ==
    /\ save_tasks[t].pc = "user-commit"
    /\ LET content == Content("user", t)
           cache == append(_cache, save_tasks[t].list_id,
                           Message("user", content, save_tasks[t].index))
       IN /\ history_rows' = Append(history_rows,
                                    ConversationHistoryRow("user", content,
                                                           save_tasks[t].index, FALSE))
          /\ _cache' = cache
          /\ crossings' = crossings + Crossed(_cache, cache)
          /\ save_tasks' = [ save_tasks EXCEPT ![t].pc = "assistant-commit",
                                               ![t].list_id = cache.id,
                                               ![t].index = Len(cache.msgs) ]
    /\ UNCHANGED << compact_tasks, checks >>
    /\ UNCHANGED notHistVars

\* lines 79-81 for the assistant message, then compact_if_needed, lines 112-127
AddAssistantCommit(t) ==
    /\ save_tasks[t].pc = "assistant-commit"
    /\ LET content == Content("assistant", t)
           cache == append(_cache, save_tasks[t].list_id,
                           Message("assistant", content, save_tasks[t].index))
           created == needs_compaction(Len(cache.msgs))
       IN /\ history_rows' = Append(history_rows,
                                    ConversationHistoryRow("assistant", content,
                                                           save_tasks[t].index, FALSE))
          /\ _cache' = cache
          /\ crossings' = crossings + Crossed(_cache, cache)
          /\ checks' = Append(checks, [ size |-> Len(cache.msgs), created |-> created ])
          /\ compact_tasks' =
               IF created
               THEN Append(compact_tasks, [ pc |-> "start", msgs |-> << >>,
                                            to_compact |-> << >>, to_keep |-> << >> ])
               ELSE compact_tasks
    /\ save_tasks' = [ save_tasks EXCEPT ![t] = Ended(@, "done") ]
    /\ UNCHANGED notHistVars

\* the commit of a message raises: _save_history_bg logs it and ends,
\* streaming.py lines 535-536
AddFails(t) ==
    /\ save_tasks[t].pc \in { "user-commit", "assistant-commit" }
    /\ save_tasks' = [ save_tasks EXCEPT ![t] = Ended(@, "failed") ]
    /\ UNCHANGED << _cache, history_rows, compact_tasks, checks, crossings >>
    /\ UNCHANGED notHistVars

\* _compact, lines 139-159: the messages are sliced, then the model is awaited
CompactBegin(k) ==
    /\ compact_tasks[k].pc = "start"
    /\ LET msgs == _cache.msgs IN
       compact_tasks' =
         IF Len(msgs) < 6
         THEN [ compact_tasks EXCEPT ![k] = Finished(@, "nothing") ]
         ELSE [ compact_tasks EXCEPT ![k].pc = "summary", ![k].msgs = msgs,
                                     ![k].to_compact = all_but_last(msgs, keep),
                                     ![k].to_keep = last(msgs, keep) ]
    /\ UNCHANGED << _cache, history_rows, save_tasks, checks, crossings >>
    /\ UNCHANGED notHistVars

\* lines 160-204: the summary arrived; rows and cache are replaced
CompactReplace(k) ==
    /\ compact_tasks[k].pc = "summary"
    /\ LET task == compact_tasks[k]
           old_indices == { task.to_compact[i].index : i \in 1..Len(task.to_compact) }
           Kept(row) == row.message_index \notin old_indices
           cache == [ id |-> _cache.id + 1,
                      msgs |-> << Message("assistant", Resumen(k), 0) >>
                               \o [ i \in 1..Len(task.to_keep) |->
                                      Message(task.to_keep[i].role, task.to_keep[i].content,
                                              i) ] ]
       IN /\ history_rows' = Append(SelectSeq(history_rows, Kept),
                                    ConversationHistoryRow("assistant", Resumen(k), 0, TRUE))
          /\ _cache' = cache
          /\ crossings' = crossings
    /\ compact_tasks' = [ compact_tasks EXCEPT ![k] = Finished(@, "done") ]
    /\ UNCHANGED << save_tasks, checks >>
    /\ UNCHANGED notHistVars

\* a failure that is noticed after the old rows were deleted
CompactFails_after_delete(k) ==
    /\ compact_tasks[k].pc = "summary"
    /\ LET task == compact_tasks[k]
           old_indices == { task.to_compact[i].index : i \in 1..Len(task.to_compact) }
           Kept(row) == row.message_index \notin old_indices
       IN history_rows' = SelectSeq(history_rows, Kept)
    /\ compact_tasks' = [ compact_tasks EXCEPT ![k] = Finished(@, "failed") ]
    /\ UNCHANGED << _cache, save_tasks, checks, crossings >>
    /\ UNCHANGED notHistVars

\* lines 165-167: the model raises (or the transaction of lines 173-193 does):
\* the cache is left as it is
CompactFails(k) ==
    /\ compact_tasks[k].pc = "summary"
    /\ compact_tasks' = [ compact_tasks EXCEPT ![k] = Finished(@, "failed") ]
    /\ UNCHANGED << _cache, history_rows, save_tasks, checks, crossings >>
    /\ UNCHANGED notHistVars

SaveStep ==
    \E t \in 1..Len(save_tasks) :
        AddUserBegin(t) \/ AddUserCommit(t) \/ AddAssistantCommit(t) \/ AddFails(t)

CompactStep ==
    \E k \in 1..Len(compact_tasks) : CompactBegin(k) \/ CompactReplace(k) \/ CompactFails(k)

HistNext == StartSave \/ SaveStep \/ CompactStep

----------------------------------------------------------------------------
\* ── repositories/zones.py: the zones table ──────────────────────────────
\* Each call runs alone on the session: a call is one step.  Optional
\* arguments are << >> when left out and << v >> when given.

\* calls made on the table in one run
MaxZoneOps == 4

\* _row_to_zone, lines 26-35 (known_since plays no part in these calls)
ZoneRow(id, name, category, description, accessible, current_robi_zone) ==
    [ id |-> id, name |-> name, category |-> category, description |-> description,
      accessible |-> accessible, current_robi_zone |-> current_robi_zone ]

ZoneNames == { "sala", "cocina" }

ZoneCategories == { "unknown", "kitchen" }

NoZoneOp == [ n |-> 0, op |-> "", zone_id |-> 0, ret |-> << >> ]

ZoneTableInit ==
    /\ zones = { }
    /\ zone_next_id = 1
    /\ zoneOp = NoZoneOp

notTabVars == << wsVars, memVars, cmpVars, zoneVars, histVars, intentVars, sessVars >>

\* select(ZoneRow).where(ZoneRow.name == name): the rows of that name
zone_by_name(name) == { z \in zones : z.name = name }

\* the call made and what it returned: << >> for None, << id >> for a zone
ZoneCall(op, zone_id, ret) ==
    zoneOp' = [ n |-> zoneOp.n + 1, op |-> op, zone_id |-> zone_id, ret |-> ret ]

\* ZonesRepository.create, lines 57-75: the new row has the flag off.  Whether
\* the table lets two rows have one name is the schema's matter (db.py): the
\* insert of a name already there either goes through or raises.
create(name, category, description, accessible) ==
    \/ /\ zones' = zones \cup { ZoneRow(zone_next_id, name, category, description,
                                        accessible, FALSE) }
       /\ zone_next_id' = zone_next_id + 1
       /\ ZoneCall("create", zone_next_id, << zone_next_id >>)
    \/ /\ zone_by_name(name) /= { }
       /\ ZoneCall("create raised", 0, << >>)
       /\ UNCHANGED << zones, zone_next_id >>

\* ZonesRepository.get_or_create, lines 93-107; get_by_name (scalar_one_or_none)
\* raises when two rows have the name
get_or_create(name, category, description) ==
    LET found == zone_by_name(name) IN
    IF Cardinality(found) > 1
    THEN ZoneCall("get_or_create raised", 0, << >>) /\ UNCHANGED << zones, zone_next_id >>
    ELSE IF found = { }
    THEN /\ zones' = zones \cup { ZoneRow(zone_next_id, name, category, description,
                                          TRUE, FALSE) }
         /\ zone_next_id' = zone_next_id + 1
         /\ ZoneCall("get_or_create", zone_next_id, << zone_next_id >>)
    ELSE /\ \E z \in found : ZoneCall("get_or_create", z.id, << z.id >>)
         /\ UNCHANGED << zones, zone_next_id >>

\* ZonesRepository.update, lines 109-131
update(zone_id, description, category, accessible) ==
    LET Updated(row) ==
          [ row EXCEPT !.description = IF description /= << >> THEN description[1] ELSE @,
                       !.category = IF category /= << >> THEN category[1] ELSE @,
                       !.accessible = IF accessible /= << >> THEN accessible[1] ELSE @ ]
    IN /\ zones' = { IF z.id = zone_id THEN Updated(z) ELSE z : z \in zones }
       /\ ZoneCall("update", zone_id,
                   IF \E z \in zones : z.id = zone_id THEN << zone_id >> ELSE << >>)
       /\ UNCHANGED zone_next_id

\* a set_current_zone that marks the target and leaves the other rows alone
set_current_zone_no_clear(zone_id) ==
    /\ zones' = { IF z.id = zone_id THEN [ z EXCEPT !.current_robi_zone = TRUE ] ELSE z :
                    z \in zones }
    /\ ZoneCall("set_current_zone", zone_id,
                IF \E z \in zones : z.id = zone_id THEN << zone_id >> ELSE << >>)
    /\ UNCHANGED zone_next_id

\* ZonesRepository.set_current_zone, lines 149-172: every marked row is
\* unmarked, then the target, if there is one, is marked
set_current_zone(zone_id) ==
    LET unmarked == { [ z EXCEPT !.current_robi_zone = FALSE ] : z \in zones }
    IN /\ zones' = { IF z.id = zone_id THEN [ z EXCEPT !.current_robi_zone = TRUE ] ELSE z :
                       z \in unmarked }
       /\ ZoneCall("set_current_zone", zone_id,
                   IF \E z \in zones : z.id = zone_id THEN << zone_id >> ELSE << >>)
       /\ UNCHANGED zone_next_id

Create ==
    /\ zoneOp.n < MaxZoneOps
    /\ \E name \in ZoneNames, category \in ZoneCategories, accessible \in BOOLEAN :
         create(name, category, "", accessible)
    /\ UNCHANGED notTabVars

GetOrCreate ==
    /\ zoneOp.n < MaxZoneOps
    /\ \E name \in ZoneNames, category \in ZoneCategories :
         get_or_create(name, category, "")
    /\ UNCHANGED notTabVars

Update ==
    /\ zoneOp.n < MaxZoneOps
    /\ \E zone_id \in 1..MaxZoneOps,
          description \in { << >>, << "con ventana" >> },
          category \in { << >>, << "kitchen" >> },
          accessible \in { << >>, << FALSE >> } :
         update(zone_id, description, category, accessible)
    /\ UNCHANGED notTabVars

SetCurrentZone ==
    /\ zoneOp.n < MaxZoneOps
    /\ \E zone_id \in 1..MaxZoneOps : set_current_zone(zone_id)
    /\ UNCHANGED notTabVars

ZoneTableNext == Create \/ GetOrCreate \/ Update \/ SetCurrentZone

----------------------------------------------------------------------------
\* ── services/intent.py: classify_intent on response texts ─────────────────

\* phrases a response text is made of
MaxPhrases == 2

\* "Filma", "puedo ver", "TAKE A PHOTO", "graba un vídeo", "hola", "film",
\* " ", "a", "FOTOGRAFÍA"
Phrases ==
    { << "F", "i", "l", "m", "a" >>,
      << "p", "u", "e", "d", "o", " ", "v", "e", "r" >>,
      << "T", "A", "K", "E", " ", "A", " ", "P", "H", "O", "T", "O" >>,
      << "g", "r", "a", "b", "a", " ", "u", "n", " ", "v", "'i", "d", "e", "o" >>,
      << "h", "o", "l", "a" >>,
      << "f", "i", "l", "m" >>,
      << " " >>,
      << "a" >>,
      << "F", "O", "T", "O", "G", "R", "A", "F", "'I", "A" >> }

\* the texts of at most n phrases
RECURSIVE Texts(_)
Texts(n) ==
    IF n = 0 THEN { << >> }
    ELSE Texts(n - 1) \cup { t \o p : t \in Texts(n - 1), p \in Phrases }

NoIntentQuery == [ response_text |-> << >>, intent |-> "unset" ]

IntentInit == \E t \in Texts(MaxPhrases) : intent_query = [ NoIntentQuery EXCEPT !.response_text = t ]

notIntentVars == << wsVars, memVars, cmpVars, zoneVars, histVars, tabVars, sessVars >>

\* intent = classify_intent(response.response_text), streaming.py line 454
Classify ==
    /\ intent_query.intent = "unset"
    /\ intent_query' = [ intent_query EXCEPT !.intent = classify_intent(intent_query.response_text) ]
    /\ UNCHANGED notIntentVars

IntentNext == Classify

----------------------------------------------------------------------------
\* ── services/history.py: the cache of several sessions ──────────────────
\* add_message, get_history and load_from_db as the file defines them, with
\* their session_id parameter, on one ConversationHistory object.

SessionIds == { "sess_a", "sess_b", "sess_c" }

\* add_message calls: bounded in number
MaxAdds == 2

\* {} : a dict without keys
EmptyDict == [ session_id \in {} |-> 0 ]

NoHistoryRead == [ session_id |-> None, result |-> << >> ]

\* the rows a select with `where session_id == ...` yields, in table order
RowsOf(rows, session_id) == SelectSeq(rows, LAMBDA row : row.session_id = session_id)

\* the orders `order_by(message_index)` can yield the n rows in: rows of equal
\* message_index come in an order the database chooses
Orderings(rows) ==
    { p \in [ 1..Len(rows) -> 1..Len(rows) ] :
        /\ \A i, j \in 1..Len(rows) : i /= j => p[i] /= p[j]
        /\ \A i, j \in 1..Len(rows) :
              i < j => rows[p[i]].message_index <= rows[p[j]].message_index }

\* self._cache.setdefault(session_id, [])
setdefault(cache, session_id) ==
    IF session_id \in DOMAIN cache THEN cache
    ELSE [ s \in DOMAIN cache \cup { session_id } |->
             IF s = session_id THEN << >> ELSE cache[s] ]

\* msgs.append(...) of a list that every session shares
append_message_shared(cache, call) ==
    [ s \in DOMAIN cache |-> Append(cache[s], Message(call.role, call.content, call.index)) ]

\* msgs.append({...}), line 81: msgs is the list add_message got at line 65,
\* the session's entry (no load_from_db replaces the entry of a session in use)
append_message(cache, call) ==
    [ cache EXCEPT ![call.session_id] =
                       Append(@, Message(call.role, call.content, call.index)) ]

\* get_history, lines 83-89: role and content of each cached message
get_history(cache, session_id) ==
    LET msgs == IF session_id \in DOMAIN cache THEN cache[session_id] ELSE << >>
    IN [ i \in 1..Len(msgs) |-> [ role |-> msgs[i].role, content |-> msgs[i].content ] ]

\* A row of conversation_history with its session_id
SessionRow(session_id, role, content, message_index) ==
    [ session_id |-> session_id, role |-> role, content |-> content,
      message_index |-> message_index, is_compacted |-> FALSE ]

\* A new ConversationHistory; the table may hold rows of an earlier run
SessionsInit ==
    /\ session_cache = EmptyDict
    /\ adding = << >>
    /\ session_rows \in { << >>, << SessionRow("sess_a", "user", Content("old", 1), 0) >> }
    /\ history_read = NoHistoryRead

SessIdle ==
    /\ session_cache = EmptyDict
    /\ adding = << >>
    /\ session_rows = << >>
    /\ history_read = NoHistoryRead

notSessVars == << wsVars, memVars, cmpVars, zoneVars, histVars, tabVars, intentVars >>

\* add_message, lines 65-66, up to the await of the commit; the callers add
\* the user's message, then the assistant's
AddMessageBegin ==
    \E session_id \in SessionIds :
        /\ Len(adding) < MaxAdds
        /\ session_cache' = setdefault(session_cache, session_id)
        /\ adding' = Append(adding,
                            [ session_id |-> session_id, role |-> RoleAt(Len(adding) + 1),
                              content |-> Content("new", Len(adding) + 1),
                              index |-> Len(session_cache'[session_id]),
                              pc |-> "commit" ])
        /\ UNCHANGED << session_rows, history_read >>
        /\ UNCHANGED notSessVars

\* add_message, lines 69-81: the row is committed and the message appended
AddMessageCommit ==
    \E k \in 1..Len(adding) :
        /\ adding[k].pc = "commit"
        /\ session_rows' = Append(session_rows,
                                  SessionRow(adding[k].session_id, adding[k].role,
                                             adding[k].content, adding[k].index))
        /\ session_cache' = append_message(session_cache, adding[k])
        /\ adding' = [ adding EXCEPT ![k].pc = "done" ]
        /\ UNCHANGED history_read
        /\ UNCHANGED notSessVars

\* load_from_db, lines 91-110: the session's entry becomes a new list; it is
\* called when a session starts (ws_handlers/streaming.py, lines 79-81), before
\* the session has an entry
LoadFromDb ==
    \E session_id \in SessionIds :
        LET rows == RowsOf(session_rows, session_id)
        IN /\ session_id \notin DOMAIN session_cache
           /\ \E p \in Orderings(rows) :
                 session_cache' =
                     [ s \in DOMAIN session_cache \cup { session_id } |->
                         IF s = session_id
                         THEN [ i \in 1..Len(rows) |->
                                  Message(rows[p[i]].role, rows[p[i]].content,
                                          rows[p[i]].message_index) ]
                         ELSE session_cache[s] ]
           /\ UNCHANGED << adding, session_rows, history_read >>
           /\ UNCHANGED notSessVars

\* get_history, lines 83-89
GetHistory ==
    \E session_id \in SessionIds :
        /\ history_read' = [ session_id |-> session_id,
                             result |-> get_history(session_cache, session_id) ]
        /\ UNCHANGED << session_cache, adding, session_rows >>
        /\ UNCHANGED notSessVars

SessionsNext == AddMessageBegin \/ AddMessageCommit \/ LoadFromDb \/ GetHistory

\* the components that do not run: an empty zones table, no text classified,
\* no session cached
MoreIdle == ZoneTableInit /\ intent_query = NoIntentQuery /\ SessIdle

----------------------------------------------------------------------------
\* ── The specifications: one component runs, the others stay as constructed ──

HistIdle ==
    /\ _cache = [ id |-> 0, msgs |-> << >> ]
    /\ history_rows = << >>
    /\ save_tasks = << >>
    /\ compact_tasks = << >>
    /\ checks = << >>
    /\ crossings = 0

InitWS == WSInit /\ MemInit /\ CmpIdle /\ ZonesInit /\ HistIdle /\ MoreIdle

SpecWS == InitWS /\ [][WSNext]_vars

\* inbound frames handled by a connection whose background tasks are followed
MaxTaskFrames == 1

\* the connection together with the background tasks its turns create
TasksNext == ( WSNext /\ frames' <= MaxTaskFrames ) \/ BgFails

\* The reply path of a turn goes on: each send is awaited in its turn and
\* _send_safe returns whether or not the send went through.
SpecTasks ==
    /\ InitWS
    /\ [][TasksNext]_vars
    /\ WF_vars(SendResponseMeta)
    /\ WF_vars(SendStreamEnd)

InitMem == WSInit /\ MemInit /\ CmpIdle /\ ZonesInit /\ HistIdle /\ MoreIdle

SpecMem == InitMem /\ [][MemNext]_vars

InitCompact == WSInit /\ CompactInit /\ ZonesInit /\ HistIdle /\ MoreIdle

SpecCompact == InitCompact /\ [][CompactNext]_vars

\* passes of one subject that overlap, on the tables of 18 memories
InitRacing ==
    /\ InitCompact
    /\ Cardinality(memories) = 2 * ( COMPACTION_THRESHOLD + 1 )

RacingNext == StartRacingPass \/ Load \/ CompactGroup

SpecRacing == InitRacing /\ [][RacingNext]_vars

InitZones == WSInit /\ MemInit /\ CmpIdle /\ ZonesInit /\ HistIdle /\ MoreIdle

SpecZones == InitZones /\ [][ZonesNext]_vars

InitHist == WSInit /\ MemInit /\ CmpIdle /\ ZonesInit /\ HistInit /\ MoreIdle

SpecHist == InitHist /\ [][HistNext]_vars

InitZoneTable ==
    WSInit /\ MemInit /\ CmpIdle /\ ZonesInit /\ HistIdle /\ ZoneTableInit
    /\ intent_query = NoIntentQuery /\ SessIdle

SpecZoneTable == InitZoneTable /\ [][ZoneTableNext]_vars

InitIntent ==
    WSInit /\ MemInit /\ CmpIdle /\ ZonesInit /\ HistIdle /\ ZoneTableInit /\ IntentInit
    /\ SessIdle

InitSessions ==
    WSInit /\ MemInit /\ CmpIdle /\ ZonesInit /\ HistIdle /\ ZoneTableInit
    /\ intent_query = NoIntentQuery /\ SessionsInit

SpecSessions == InitSessions /\ [][SessionsNext]_vars

SpecIntent == InitIntent /\ [][IntentNext]_vars

----------------------------------------------------------------------------
\* ── Properties of the WebSocket session ─────────────────────────────────

Events == 1..Len(outbox)

IsAuthFrame(in) == in.recv = "text" /\ in.json = "object" /\ in.type = "auth"

Rank(kind) ==
    CASE kind = "emotion" -> 1
      [] kind = "text_chunk" -> 2
      [] kind = "response_meta" -> 4
      [] kind = "stream_end" -> 5
      [] OTHER -> 0

TurnEnded(i) ==
    \/ outbox[i].kind = "stream_end"
    \/ outbox[i].kind = "error" /\ outbox[i].code = "AGENT_ERROR"

\* C2: within one turn the events emotion, text_chunk, response_meta and
\* stream_end appear in that order (a turn that reaches stream_end has sent
\* its emotion and its response_meta before it), and every event of turn N+1
\* comes after the event that ended turn N.
C2_EventOrder ==
    /\ \A i, j \in Events :
         ( i < j /\ outbox[i].turn = outbox[j].turn /\ outbox[i].turn > 0
           /\ Rank(outbox[i].kind) > 0 /\ Rank(outbox[j].kind) > 0 ) =>
             \/ Rank(outbox[i].kind) < Rank(outbox[j].kind)
             \/ outbox[i].kind = "text_chunk" /\ outbox[j].kind = "text_chunk"
    /\ \A j \in Events :
         outbox[j].kind = "stream_end" =>
             /\ \E i \in 1..(j - 1) :
                  outbox[i].kind = "emotion" /\ outbox[i].turn = outbox[j].turn
             /\ \E i \in 1..(j - 1) :
                  outbox[i].kind = "response_meta" /\ outbox[i].turn = outbox[j].turn
    /\ \A j \in Events :
         outbox[j].turn > 1 =>
             \E i \in 1..(j - 1) : outbox[i].turn = outbox[j].turn - 1 /\ TurnEnded(i)

\* two turns completed, the second with a text chunk
C2_Witness ==
    \E i, j, k \in Events :
        /\ i < j /\ j < k
        /\ outbox[i].kind = "stream_end" /\ outbox[i].turn = 1
        /\ outbox[j].kind = "text_chunk" /\ outbox[j].turn = 2
        /\ outbox[k].kind = "stream_end" /\ outbox[k].turn = 2

\* C3: an audio_end message received while the audio buffer is empty appends
\* exactly one event, a recoverable EMPTY_AUDIO error, invokes no agent,
\* starts no turn and no background task, and leaves the session ACTIVE and
\* waiting for the next message.
C3_EmptyAudio ==
    [][ ( frames' = frames + 1 /\ lastFrame'.type = "audio_end"
          /\ lastFrame'.raw = "object" /\ audio_buffer = << >> ) =>
            /\ Len(outbox') = Len(outbox) + 1
            /\ SubSeq(outbox', 1, Len(outbox)) = outbox
            /\ outbox'[Len(outbox')].kind = "error"
            /\ outbox'[Len(outbox')].code = "EMPTY_AUDIO"
            /\ outbox'[Len(outbox')].rec = TRUE
            /\ agentCalls' = agentCalls
            /\ turns' = turns
            /\ bg' = bg
            /\ pc' = "recv"
            /\ wsState' = "ACTIVE" ]_vars

\* the EMPTY_AUDIO error was the answer to the last message, an audio_end
C3_Witness ==
    /\ lastFrame.type = "audio_end"
    /\ Len(outbox) >= 2
    /\ outbox[Len(outbox)].code = "EMPTY_AUDIO"
    /\ audio_buffer = << >>
    /\ wsState = "ACTIVE"

\* C5: when run_agent fails, the turn's only event is one recoverable
\* AGENT_ERROR error: no emotion, text_chunk, response_meta or stream_end of
\* that turn, no background task of that turn, and the session is ACTIVE and
\* back at the receive loop.
C5_AgentError ==
    /\ [][ ( agentResult = "pending" /\ agentResult' = "raised" ) =>
             /\ outbox' = Append(outbox, make_error("AGENT_ERROR", turn.n,
                                                    turn.request_id, TRUE))
             /\ bg' = bg
             /\ wsState' = "ACTIVE"
             /\ pc' = "recv" ]_vars
    /\ [] ( \A i \in Events :
              ( outbox[i].kind = "error" /\ outbox[i].code = "AGENT_ERROR" ) =>
                  /\ outbox[i].rec = TRUE
                  /\ outbox[i].turn > 0
                  /\ \A j \in Events : j /= i => outbox[j].turn /= outbox[i].turn
                  /\ \A k \in 1..Len(bg) : bg[k].turn /= outbox[i].turn )

\* a turn failed and a later message was processed to the end
C5_Witness ==
    \E i, j \in Events :
        /\ i < j
        /\ outbox[i].code = "AGENT_ERROR" /\ outbox[i].turn = 1
        /\ outbox[j].kind = "stream_end" /\ outbox[j].turn = 2

\* C10: every path that ends the session while it is AWAITING_AUTH has sent
\* an error event and closed the connection with code 1008.
C10_AuthFailureClosed ==
    ( authInput /= NoAuthMsg /\ wsState = "CLOSED" /\ frames = 0 ) =>
        /\ closeCode = 1008
        /\ Len(outbox) = 1
        /\ outbox[1].kind = "error"
        /\ outbox[1].code \in { "AUTH_TIMEOUT", "INVALID_MESSAGE", "INVALID_API_KEY" }

\* C10, what the handshake does: a timeout, a text that is no JSON, an object
\* of another type and a wrong key send the error and close with 1008; a
\* failure of the receive other than the timeout, and JSON that is no
\* object, end the handler with no event sent and close() not called.
C10_AuthFailurePaths ==
    ( authInput /= NoAuthMsg /\ wsState = "CLOSED" /\ frames = 0 ) =>
        IF authInput.recv = "error" \/ authInput.json = "nonobject"
        THEN outbox = << >> /\ closeCode = 0
        ELSE /\ closeCode = 1008
             /\ Len(outbox) = 1
             /\ outbox[1].kind = "error"
             /\ outbox[1].code \in { "AUTH_TIMEOUT", "INVALID_MESSAGE", "INVALID_API_KEY" }

\* the first frame was JSON that is no object: the handler ended on the
\* exception with nothing sent
C10_Witness ==
    /\ authInput.json = "nonobject"
    /\ exitPath = "auth_exception"
    /\ outbox = << >>
    /\ closeCode = 0

----------------------------------------------------------------------------
\* ── Properties of the memory store ──────────────────────────────────────

\* two characters that are the same letter, whatever their case
SameLetter(a, b) == LowerChar(a) = LowerChar(b)

\* the content holds a privacy keyword as a substring, case ignored
HasKeyword(content) ==
    \E kw \in _PRIVACY_KEYWORDS :
        \E i \in 0..(Len(content) - Len(kw)) :
            \A j \in 1..Len(kw) : SameLetter(content[i + j], kw[j])

\* C4: after any sequence of save, replace_with_compacted and delete calls no
\* stored memory has content holding a privacy keyword (case-insensitive
\* substring), whatever its type, importance or owner; and a save of such
\* content returns None and leaves the table as it was.
C4_PrivacyInvariant ==
    /\ [] ( \A m \in memories : ~ HasKeyword(m.content) )
    /\ [][ ( memOp'.n = memOp.n + 1 /\ memOp'.op = "save" /\ HasKeyword(memOp'.content) ) =>
             /\ memOp'.ret = << >>
             /\ memories' = memories
             /\ mem_next_id' = mem_next_id ]_vars

\* a save of "Su PIN" was rejected while the table holds a memory
C4_Witness ==
    /\ memOp.op = "save"
    /\ memOp.content = << "S", "u", " ", "P", "I", "N" >>
    /\ memOp.ret = << >>
    /\ memories /= { }

----------------------------------------------------------------------------
\* ── Properties of find_path ─────────────────────────────────────────────

\* the rows of zone_paths when find_path was called
PathRows == { path_query.all_edges[i] : i \in 1..Len(path_query.all_edges) }

\* the zones reached from zone a by a directed walk of at most k edges
RECURSIVE Within(_, _)
Within(a, k) ==
    IF k = 0 THEN { a }
    ELSE LET R == Within(a, k - 1)
         IN R \cup { e.to_zone_id : e \in { x \in PathRows : x.from_zone_id \in R } }

\* the least number of edges of a directed walk from a to b, 0 if there is none
Distance(a, b) ==
    LET ks == { k \in 1..Len(path_query.all_edges) : b \in Within(a, k) }
    IN IF ks = { } THEN 0 ELSE CHOOSE k \in ks : \A o \in ks : k <= o

\* C6: find_path(A, B) returns the empty list when A or B is no known zone
\* name, when A and B are the same zone, and when no directed path leads from
\* A to B; otherwise it returns rows of zone_paths that chain from A to B, as
\* few of them as any directed path from A to B has.
C6_FindPath ==
    path_query.from /= None =>
        LET r == path_query.result
            a == get_by_name(path_query.from)
            b == get_by_name(path_query.to)
        IN IF a = << >> \/ b = << >> THEN r = << >>
           ELSE IF a[1] = b[1] \/ Distance(a[1], b[1]) = 0 THEN r = << >>
           ELSE /\ Len(r) = Distance(a[1], b[1])
                /\ \A i \in 1..Len(r) : r[i] \in PathRows
                /\ r[1].from_zone_id = a[1]
                /\ r[Len(r)].to_zone_id = b[1]
                /\ \A i \in 1..(Len(r) - 1) : r[i + 1].from_zone_id = r[i].to_zone_id

\* a path of two edges was returned although an edge leads straight back
C6_Witness ==
    /\ Len(path_query.result) = 2
    /\ \E e \in PathRows :
         /\ e.from_zone_id = path_query.result[2].to_zone_id
         /\ e.to_zone_id = path_query.result[1].from_zone_id

----------------------------------------------------------------------------
\* ── Properties of the memory compaction ─────────────────────────────────

Loaded(p, memory_type) ==
    { m \in { passes[p].memories[i] : i \in 1..Len(passes[p].memories) } :
        m.memory_type = memory_type }

LoadedTypes(p) == { passes[p].memories[i].memory_type : i \in 1..Len(passes[p].memories) }

\* the active memories of the group now
GroupNow(pid, memory_type) ==
    { m \in memories : m.person_id = pid /\ m.memory_type = memory_type /\ active(m, now) }

CallsFor(p, memory_type) ==
    { i \in 1..Len(llm_calls) :
        llm_calls[i].pass = p /\ llm_calls[i].memory_type = memory_type }

MoreSalient(a, b) ==
    \/ a.importance > b.importance
    \/ a.importance = b.importance /\ a.timestamp > b.timestamp

\* the two most salient memories of a group
HeldOut(G) == { m \in G : Cardinality({ o \in G : MoreSalient(o, m) }) < 2 }

\* the model answered with a text that is not blank
Answered(out) == out.kind = "text" /\ \E i \in 1..Len(out.text) : out.text[i] /= " "

\* the group ended as the two held out and one new memory of importance 7
EndsWithThree(G, now_g) ==
    /\ Cardinality(now_g) = 3
    /\ now_g \cap G = HeldOut(G)
    /\ \A m \in now_g \ G : m.importance = 7

\* the pass ran alone and is over
RanAlone(p) == Len(passes) = 1 /\ passes[p].pc = "done"

\* C7, as the claim states it: in a pass a group of at most 8 active memories
\* is never compacted (no model call, no deletion, no insertion), and a group
\* of 9 whose model call answers is replaced by the 2 held out and one new
\* memory: it ends with 3.
C7_AsStated ==
    \A p \in 1..Len(passes) :
        RanAlone(p) =>
            \A t \in LoadedTypes(p) :
                LET G == Loaded(p, t)
                    now_g == GroupNow(passes[p].person_id, t)
                IN /\ Cardinality(G) <= 8 => ( CallsFor(p, t) = { } /\ now_g = G )
                   /\ Cardinality(G) = 9 =>
                        /\ \E i \in CallsFor(p, t) : llm_calls[i].n = 7
                        /\ ( \A i \in CallsFor(p, t) : Answered(llm_calls[i].out) ) =>
                             EndsWithThree(G, now_g)

\* C7, what the pass does: the same, but only an answer that holds no privacy
\* keyword makes the group end with 3; an answer that holds one leaves the 2
\* held out and nothing else, and a blank answer or a failed call leaves the 9.
C7_CompactionThreshold ==
    \A p \in 1..Len(passes) :
        RanAlone(p) =>
            \A t \in LoadedTypes(p) :
                LET G == Loaded(p, t)
                    now_g == GroupNow(passes[p].person_id, t)
                IN /\ Cardinality(G) <= 8 => ( CallsFor(p, t) = { } /\ now_g = G )
                   /\ Cardinality(G) = 9 =>
                        /\ Cardinality(CallsFor(p, t)) = 1
                        /\ \A i \in CallsFor(p, t) :
                             /\ llm_calls[i].n = 7
                             /\ IF ~ Answered(llm_calls[i].out) THEN now_g = G
                                ELSE IF HasKeyword(llm_calls[i].out.text)
                                THEN now_g = HeldOut(G)
                                ELSE EndsWithThree(G, now_g)

\* the answer held a privacy keyword: 7 memories deleted, none inserted
C7_WitnessLost ==
    /\ RanAlone(1)
    /\ Cardinality(Loaded(1, "person_fact")) = 9
    /\ Cardinality(GroupNow(passes[1].person_id, "person_fact")) = 2

----------------------------------------------------------------------------
\* ── Properties of the conversation log ──────────────────────────────────

\* C8: when a _compact task that found n >= 6 cached messages replaces the
\* cache, the cache holds exactly 6 messages: first the summary, with role
\* assistant, then the 5 messages that were the last when the task read the
\* cache, with their roles and contents and in their order.
C8_CompactedCache ==
    [][ \A k \in 1..Len(compact_tasks) :
          /\ ( compact_tasks[k].pc = "start" /\ compact_tasks'[k].pc = "summary" ) =>
               ( compact_tasks'[k].msgs = _cache.msgs /\ Len(_cache.msgs) >= 6 )
          /\ ( compact_tasks[k].pc = "summary" /\ compact_tasks'[k].pc = "done" ) =>
               LET before == compact_tasks[k].msgs
                   n == Len(before)
                   after == _cache'.msgs
               IN /\ n >= 6
                  /\ Len(after) = 6
                  /\ after[1].role = "assistant"
                  /\ after[1].content = Resumen(k)
                  /\ \A i \in 1..5 :
                       /\ after[i + 1].role = before[n - 5 + i].role
                       /\ after[i + 1].content = before[n - 5 + i].content ]_vars

\* a compaction of 20 messages is over and the cache holds the summary and 5
C8_Witness ==
    /\ Len(compact_tasks) >= 1
    /\ compact_tasks[1].pc = "done"
    /\ Len(_cache.msgs) = 6
    /\ _cache.msgs[1].content = Resumen(1)
    /\ _cache.msgs[6].content = Content("assistant", 1)

Created == { i \in 1..Len(checks) : checks[i].created }

\* C9, as the claim states it: no compaction is scheduled below the
\* threshold, and no more compactions are scheduled than the cached size has
\* crossed the threshold.
C9_AsStated ==
    /\ \A i \in 1..Len(checks) :
         checks[i].size < CONVERSATION_COMPACTION_THRESHOLD => ~ checks[i].created
    /\ Cardinality(Created) <= crossings

\* C9, amended: a check schedules no compaction while the cached size is
\* below the threshold, and every check made at or above the threshold
\* schedules one, whether or not an earlier compaction is pending or failed.
C9_CompactionPerCheck ==
    /\ [] ( /\ \A i \in 1..Len(checks) :
                 checks[i].created <=> checks[i].size >= 20
            /\ Len(compact_tasks) = Cardinality(Created) )
    /\ [][ Len(checks') > Len(checks) =>
             /\ Len(checks') = Len(checks) + 1
             /\ checks'[Len(checks')].size = Len(_cache'.msgs)
             /\ Len(compact_tasks') - Len(compact_tasks) =
                  ( IF Len(_cache'.msgs) >= 20 THEN 1 ELSE 0 ) ]_vars

\* a second compaction was scheduled while the first one awaits its summary
C9_Witness ==
    /\ Len(compact_tasks) = 2
    /\ compact_tasks[1].pc = "summary"
    /\ crossings = 1

----------------------------------------------------------------------------
\* ── Properties of the receive loop ──────────────────────────────────────

\* C11: a text frame received in ACTIVE that is not valid JSON appends exactly
\* one event, an INVALID_MESSAGE error, leaves person_id, request_id,
\* audio_buffer and pending_face_embedding as they were, calls no agent and
\* starts no turn, and the session stays ACTIVE at the receive of the next
\* message.
C11_InvalidJson ==
    [][ ( frames' = frames + 1 /\ lastFrame'.frame = "text" /\ lastFrame'.raw = "invalid" ) =>
            /\ Len(outbox') = Len(outbox) + 1
            /\ SubSeq(outbox', 1, Len(outbox)) = outbox
            /\ outbox'[Len(outbox')].kind = "error"
            /\ outbox'[Len(outbox')].code = "INVALID_MESSAGE"
            /\ person_id' = person_id
            /\ request_id' = request_id
            /\ audio_buffer' = audio_buffer
            /\ pending_face_embedding' = pending_face_embedding
            /\ agentCalls' = agentCalls
            /\ turns' = turns
            /\ bg' = bg
            /\ wsState' = "ACTIVE"
            /\ pc' = "recv" ]_vars

\* after the INVALID_MESSAGE error the next message was processed: its turn
\* ran to stream_end
C11_Witness ==
    \E i, j \in Events :
        /\ i < j
        /\ outbox[i].kind = "error" /\ outbox[i].code = "INVALID_MESSAGE"
        /\ outbox[j].kind = "stream_end"
        /\ wsState = "ACTIVE"

\* the frame just received is a text frame whose JSON has an unrecognized
\* structure: no object, or an object whose type is unknown or missing
Unrecognized(f) ==
    /\ f.frame = "text"
    /\ \/ f.raw = "nonobject"
       \/ f.raw = "object" /\ f.type \notin ClientTypes

\* C12, as the claim states it: such a frame appends an INVALID_MESSAGE error
\* event and the session stays ACTIVE at the receive of the next message.
C12_AsStated ==
    [][ ( frames' = frames + 1 /\ Unrecognized(lastFrame') ) =>
            /\ Len(outbox') = Len(outbox) + 1
            /\ outbox'[Len(outbox')].kind = "error"
            /\ outbox'[Len(outbox')].code = "INVALID_MESSAGE"
            /\ wsState' = "ACTIVE"
            /\ pc' = "recv" ]_vars

\* C12, what the loop does: an object of unknown or missing type sends no
\* event, changes nothing and leaves the session ACTIVE; JSON that is no
\* object sends one INTERNAL_ERROR error with recoverable false and the loop
\* ends, the session CLOSED.
C12_UnrecognizedStructure ==
    [][ ( frames' = frames + 1 /\ Unrecognized(lastFrame') ) =>
            /\ person_id' = person_id /\ request_id' = request_id
            /\ audio_buffer' = audio_buffer
            /\ pending_face_embedding' = pending_face_embedding
            /\ agentCalls' = agentCalls /\ turns' = turns /\ bg' = bg
            /\ IF lastFrame'.raw = "object"
               THEN outbox' = outbox /\ wsState' = "ACTIVE" /\ pc' = "recv"
               ELSE /\ outbox' = Append(outbox, make_error("INTERNAL_ERROR", 0, None, FALSE))
                    /\ wsState' = "CLOSED"
                    /\ pc' = "done" ]_vars

\* an object of unknown type was the first message after auth_ok: nothing
\* was sent for it
C12_Witness ==
    /\ lastFrame.raw = "object"
    /\ lastFrame.type = "bogus"
    /\ frames = 1
    /\ Len(outbox) = 1
    /\ wsState = "ACTIVE"

\* the INTERNAL_ERROR events sent so far
InternalErrors == { i \in Events : outbox[i].kind = "error" /\ outbox[i].code = "INTERNAL_ERROR" }

\* C13: an exception that leaves the ACTIVE receive loop sends, to a client
\* that is still connected, exactly one error event INTERNAL_ERROR with
\* recoverable false, the last event of the connection; and after either exit
\* of the loop (disconnect, exception) the session is CLOSED and stays so:
\* no message is received, no event is sent and no agent is called any more.
C13_InternalError ==
    /\ [][ ( wsState = "ACTIVE" /\ exitPath' = "exception" ) =>
             /\ wsState' = "CLOSED"
             /\ client_state = "CONNECTED" =>
                  outbox' = Append(outbox, make_error("INTERNAL_ERROR", 0, None, FALSE)) ]_vars
    /\ [] ( /\ Cardinality(InternalErrors) <= 1
            /\ InternalErrors /= { } <=> exitPath = "exception"
            /\ \A i \in InternalErrors : i = Len(outbox) /\ outbox[i].rec = FALSE
            /\ exitPath \in { "disconnect", "exception" } => wsState = "CLOSED" /\ pc = "done" )
    /\ [][ wsState = "CLOSED" =>
             /\ wsState' = "CLOSED"
             /\ frames' = frames
             /\ outbox' = outbox
             /\ agentCalls' = agentCalls
             /\ turns' = turns ]_vars

\* the loop processed a message, then ended on an exception: INTERNAL_ERROR
\* is the last event and the session is CLOSED
C13_Witness ==
    /\ exitPath = "exception"
    /\ frames = 2
    /\ wsState = "CLOSED"
    /\ outbox[Len(outbox)].code = "INTERNAL_ERROR"
    /\ \E i \in Events : outbox[i].kind = "stream_end"

\* the turn started last has ended: its stream_end or its AGENT_ERROR is sent
LastTurnEnded == turns = 0 \/ \E i \in Events : outbox[i].turn = turns /\ TurnEnded(i)

\* C14: a connection has at most one turn in flight: a message is received
\* only while no turn is running, every turn started before it having sent
\* its stream_end or its AGENT_ERROR, and run_agent is called only when no
\* earlier call of the connection is pending.
C14_OneTurnInFlight ==
    /\ [][ frames' = frames + 1 => ( pc = "recv" /\ agentResult /= "pending" /\ LastTurnEnded ) ]_vars
    /\ [][ agentCalls' = agentCalls + 1 => ( agentResult /= "pending" /\ LastTurnEnded ) ]_vars
    /\ [] ( agentResult = "pending" => pc = "agent" )

\* the second turn is at its run_agent call, after the first ended on AGENT_ERROR
C14_Witness ==
    /\ turns = 2
    /\ agentResult = "pending"
    /\ \E i \in Events : outbox[i].code = "AGENT_ERROR" /\ outbox[i].turn = 1

\* the message f, received with the audio buffer buf, is one that starts a
\* turn: a text with content, an audio_end with buffered audio, an image, a
\* video, a multimodal message, a person_detected that is not marked known
StartsTurn(f, buf) ==
    /\ f.frame = "text" /\ f.raw = "object"
    /\ \/ f.type = "text" /\ Truthy(f.content)
       \/ f.type = "audio_end" /\ buf /= << >>
       \/ f.type \in { "image", "video", "multimodal" }
       \/ f.type = "person_detected" /\ f.known /= "true"

\* C15: a message that starts a turn causes exactly one call of run_agent and
\* one turn; run_agent is called at no other step than the receipt of a
\* message, once at most; so the calls made over a session are as many as the
\* turns started.
C15_OneCallPerTurn ==
    /\ [][ ( frames' = frames + 1 /\ StartsTurn(lastFrame', audio_buffer) ) =>
             ( agentCalls' = agentCalls + 1 /\ turns' = turns + 1 ) ]_vars
    /\ [][ /\ agentCalls' \in { agentCalls, agentCalls + 1 }
           /\ agentCalls' = agentCalls + 1 => ( frames' = frames + 1 /\ turns' = turns + 1 )
           /\ turns' /= turns => agentCalls' /= agentCalls ]_vars
    /\ [] ( agentCalls = turns )

\* two turns were started, the second by a video message, and two calls made
C15_Witness ==
    /\ turns = 2
    /\ agentCalls = 2
    /\ lastFrame.type = "video"
    /\ \E i \in Events : outbox[i].kind = "stream_end" /\ outbox[i].turn = 2

\* C19: the events sent for one turn (emotion, text_chunk, capture_request,
\* response_meta, stream_end, or the AGENT_ERROR error) all carry the same
\* request_id, the one the turn was started with; and a turn started by a
\* message that supplies a request_id is started with that one.
C19_RequestId ==
    /\ [] ( \A i, j \in Events :
              ( outbox[i].turn > 0 /\ outbox[i].turn = outbox[j].turn ) =>
                  outbox[i].rid = outbox[j].rid )
    /\ [][ ( Len(outbox') = Len(outbox) + 1 /\ outbox'[Len(outbox')].turn > 0 ) =>
             /\ outbox'[Len(outbox')].turn = turn.n
             /\ outbox'[Len(outbox')].rid = turn.request_id
             /\ Truthy(outbox'[Len(outbox')].rid) ]_vars
    /\ [][ ( turns' = turns + 1 /\ Truthy(lastFrame'.request_id) ) =>
             turn'.request_id = lastFrame'.request_id ]_vars

\* the first turn ran under request_id r1; the second message supplied r2 and
\* its turn's capture_request and stream_end carry r2
C19_Witness ==
    \E i, j, k \in Events :
        /\ outbox[i].turn = 1 /\ outbox[i].rid = "r1" /\ outbox[i].kind = "stream_end"
        /\ outbox[j].turn = 2 /\ outbox[j].rid = "r2" /\ outbox[j].kind = "capture_request"
        /\ outbox[k].turn = 2 /\ outbox[k].rid = "r2" /\ outbox[k].kind = "stream_end"

----------------------------------------------------------------------------
\* ── Properties of the zones table ───────────────────────────────────────

\* the zones that have the robot-is-here flag
Marked == { z \in zones : z.current_robi_zone }

\* C16: after every create, get_or_create, update and set_current_zone call
\* at most one zone has current_robi_zone set; and after a set_current_zone
\* that found its zone, that zone, and no other, has it.
C16_CurrentZone ==
    /\ Cardinality(Marked) <= 1
    /\ ( zoneOp.op = "set_current_zone" /\ zoneOp.ret /= << >> ) =>
           /\ Marked = { z \in zones : z.id = zoneOp.zone_id }
           /\ Marked /= { }

\* the fourth call moved the flag to zone 2 of two zones
C16_Witness ==
    /\ zoneOp.n = 4
    /\ zoneOp.op = "set_current_zone"
    /\ zoneOp.ret = << 2 >>
    /\ Cardinality(zones) = 2
    /\ \E z \in Marked : z.id = 2

----------------------------------------------------------------------------
\* ── Properties of classify_intent ───────────────────────────────────────

\* the text holds one of the keywords as a substring, case ignored
HoldsAny(text, keywords) ==
    \E kw \in keywords :
        \E i \in 0..(Len(text) - Len(kw)) :
            \A j \in 1..Len(kw) : SameLetter(text[i + j], kw[j])

\* C20: classify_intent gives video_request for a text that holds a video
\* keyword, whether or not it holds a photo keyword too; photo_request for a
\* text that holds a photo keyword and no video keyword; None for any other
\* text; letters match whatever their case.
C20_VideoPrecedence ==
    intent_query.intent /= "unset" =>
        intent_query.intent =
            IF HoldsAny(intent_query.response_text, _VIDEO_KEYWORDS) THEN "video_request"
            ELSE IF HoldsAny(intent_query.response_text, _PHOTO_KEYWORDS) THEN "photo_request"
            ELSE None

\* a text with a photo keyword in capitals and a video keyword was classified
\* video_request
C20_Witness ==
    /\ intent_query.intent = "video_request"
    /\ HoldsAny(intent_query.response_text, _PHOTO_KEYWORDS)
    /\ Lower(intent_query.response_text) /= intent_query.response_text

----------------------------------------------------------------------------
\* ── Properties of the conversation log's indices ────────────────────────

\* the rows written by add_message, in the order they were committed
Appended == SelectSeq(history_rows, LAMBDA row : ~ row.is_compacted)

\* C17, as the claim states it: whatever the interleaving of the appends, no
\* two appended rows of the table have the same index, and a row appended
\* later has the greater index.
C17_AsStated ==
    \A i, j \in 1..Len(Appended) :
        i < j => Appended[i].message_index < Appended[j].message_index

\* C17, what add_message gives: while one _save_history_bg task has run and
\* no compaction has replaced the cache, the rows carry the indices 0, 1, 2,
\* ... in the order of the appends.
C17_SequentialAppends ==
    ( Len(save_tasks) <= 1 /\ compact_tasks = << >> ) =>
        \A i \in 1..Len(history_rows) : history_rows[i].message_index = i - 1

\* two tasks took their index before either had appended: two appended rows
\* have the same index
C17_WitnessDuplicate ==
    /\ compact_tasks = << >>
    /\ \E i, j \in 1..Len(Appended) :
         /\ i < j
         /\ Appended[i].content = Content("user", 1)
         /\ Appended[j].content = Content("user", 2)
         /\ Appended[i].message_index = Appended[j].message_index

----------------------------------------------------------------------------
\* ── Properties of the background tasks of a connection ──────────────────

\* C18: the failure of a background task (memory save, person registration,
\* history save with its compaction, memory compaction) sends no event,
\* changes nothing of the session (state, close code, position in the turn,
\* per-connection fields) and creates no task; a task that failed is never
\* run again; and the turn that created a task that failed still sends its
\* stream_end.
C18_BackgroundFailure ==
    /\ [][ ( \E k \in 1..Len(bg) : bg[k].status = "scheduled" /\ bg'[k].status = "failed" ) =>
             /\ outbox' = outbox
             /\ wsState' = wsState /\ client_state' = client_state
             /\ closeCode' = closeCode /\ exitPath' = exitPath
             /\ pc' = pc /\ turn' = turn /\ turns' = turns /\ frames' = frames
             /\ agentCalls' = agentCalls
             /\ person_id' = person_id /\ request_id' = request_id
             /\ audio_buffer' = audio_buffer
             /\ pending_face_embedding' = pending_face_embedding
             /\ Len(bg') = Len(bg) ]_vars
    /\ [][ \A k \in 1..Len(bg) :
             bg[k].status = "failed" => ( k <= Len(bg') /\ bg'[k] = bg[k] ) ]_vars
    /\ \A n \in 1..MaxTurns :
         ( \E k \in 1..Len(bg) : bg[k].turn = n /\ bg[k].status = "failed" )
           ~> ( \E i \in Events : outbox[i].turn = n /\ outbox[i].kind = "stream_end" )

\* the memory task of the turn failed while the turn was replying and its
\* history task failed afterwards: the turn sent its stream_end, no error
\* event was sent and the session is ACTIVE
C18_Witness ==
    /\ \E k \in 1..Len(bg) :
         bg[k].kind = "memory" /\ bg[k].status = "failed" /\ bg[k].early
    /\ \E k \in 1..Len(bg) :
         bg[k].kind = "history" /\ bg[k].status = "failed" /\ ~ bg[k].early
    /\ outbox[Len(outbox)].kind = "stream_end"
    /\ \A i \in Events : outbox[i].kind /= "error"
    /\ wsState = "ACTIVE"

----------------------------------------------------------------------------
\* ── Properties of face_scan_mode and person_detected ────────────────────

\* C21: a face_scan_mode message appends exactly one event, a
\* face_scan_actions event that carries the message's request_id (when the
\* message has one) and the fixed rotation sequence, which has steps; no
\* agent is called, no turn is started, and person_id, request_id,
\* audio_buffer and pending_face_embedding stay as they were.
C21_FaceScanMode ==
    [][ ( frames' = frames + 1 /\ lastFrame'.raw = "object"
          /\ lastFrame'.type = "face_scan_mode" ) =>
            /\ Len(outbox') = Len(outbox) + 1
            /\ SubSeq(outbox', 1, Len(outbox)) = outbox
            /\ LET ev == outbox'[Len(outbox')] IN
               /\ ev.kind = "face_scan_actions"
               /\ Truthy(lastFrame'.request_id) => ev.rid = lastFrame'.request_id
               /\ Truthy(ev.rid)
               /\ Len(ev.arg) = 1
               /\ ev.arg[1].steps /= << >>
               /\ ev.arg = << build_move_sequence("Escaneo facial", _FACE_SCAN_SEQUENCE) >>
            /\ agentCalls' = agentCalls /\ turns' = turns /\ bg' = bg
            /\ person_id' = person_id
            /\ request_id' = request_id
            /\ audio_buffer' = audio_buffer
            /\ pending_face_embedding' = pending_face_embedding
            /\ wsState' = "ACTIVE" /\ pc' = "recv" ]_vars

\* after an interaction_start that set request_id r1 and person ana, a
\* face_scan_mode was answered with five steps of 2400 ms in all, and the
\* person and the request_id are still those
C21_Witness ==
    /\ lastFrame.type = "face_scan_mode"
    /\ outbox[Len(outbox)].kind = "face_scan_actions"
    /\ outbox[Len(outbox)].arg[1].step_count = 5
    /\ outbox[Len(outbox)].arg[1].total_duration_ms = 2400
    /\ person_id = "ana"
    /\ request_id = "r1"

\* f is a person_detected message marked known that carries an identifier
KnownPerson(f) ==
    /\ f.frame = "text" /\ f.raw = "object" /\ f.type = "person_detected"
    /\ f.known = "true" /\ Truthy(f.person_id)

\* the messages whose turn runs under the connection's active person
UsesActivePerson == { "text", "audio_end", "image", "video", "multimodal" }

\* C22 as stated: the turn started next after a known person_detected runs
\* with the detected person, whatever message starts it.
C22_AsStated ==
    [][ ( KnownPerson(lastFrame) /\ turns' = turns + 1 ) =>
            turn'.person_id = lastFrame.person_id ]_vars

\* C22: a known person_detected with an identifier sets person_id to it,
\* sends nothing and starts no turn; any other person_detected starts exactly
\* one turn, with no person, and leaves person_id alone; person_id changes
\* only on an interaction_start or a known person_detected; and a turn
\* started by a text, audio_end, image, video or multimodal message runs with
\* the person_id of that moment - the detected person when the message
\* follows the person_detected.
C22_PersonDetected ==
    /\ [][ ( frames' = frames + 1 /\ lastFrame'.raw = "object"
             /\ lastFrame'.type = "person_detected" ) =>
               IF KnownPerson(lastFrame')
               THEN /\ person_id' = lastFrame'.person_id
                    /\ outbox' = outbox
                    /\ agentCalls' = agentCalls /\ turns' = turns /\ bg' = bg
                    /\ pc' = "recv"
               ELSE /\ turns' = turns + 1 /\ agentCalls' = agentCalls + 1
                    /\ turn'.person_id = None
                    /\ person_id' = person_id ]_vars
    /\ [][ person_id' /= person_id =>
               ( frames' = frames + 1
                 /\ lastFrame'.type \in { "interaction_start", "person_detected" } ) ]_vars
    /\ [][ ( turns' = turns + 1 /\ lastFrame'.type \in UsesActivePerson ) =>
               /\ turn'.person_id = person_id
               /\ KnownPerson(lastFrame) => turn'.person_id = lastFrame.person_id ]_vars

\* bob was detected as a known person, nothing was sent, and the text message
\* that followed started a turn that runs with bob
C22_Witness ==
    /\ frames = 2
    /\ lastFrame.type = "text"
    /\ turns = 1 /\ pc = "agent"
    /\ turn.person_id = "bob"
    /\ person_id = "bob"
    /\ outbox[Len(outbox)].kind = "auth_ok"

----------------------------------------------------------------------------
\* ── Properties of the histories of several sessions ─────────────────────

\* the add_message calls that took a step
Stepped == { k \in 1..Len(adding') : k > Len(adding) \/ adding'[k] /= adding[k] }

\* C23: a step of an add_message call of one session leaves the history that
\* get_history returns for every other session as it was; the history of a
\* session for which no add_message was called and the table has no row is
\* empty; and every message of a session's history is one stored under that
\* session_id.
C23_SessionsIsolated ==
    /\ [][ \A k \in Stepped :
             \A other \in SessionIds \ { adding'[k].session_id } :
                 get_history(session_cache', other) = get_history(session_cache, other) ]_vars
    /\ [] ( \A session_id \in SessionIds :
              ( /\ \A k \in 1..Len(adding) : adding[k].session_id /= session_id
                /\ RowsOf(session_rows, session_id) = << >> ) =>
                  get_history(session_cache, session_id) = << >> )
    /\ [] ( \A session_id \in DOMAIN session_cache :
              \A i \in 1..Len(session_cache[session_id]) :
                  \E j \in 1..Len(session_rows) :
                      /\ session_rows[j].session_id = session_id
                      /\ session_rows[j].content = session_cache[session_id][i].content )
    /\ [] ( history_read.session_id /= None =>
              \A i \in 1..Len(history_read.result) :
                  \E j \in 1..Len(session_rows) :
                      /\ session_rows[j].session_id = history_read.session_id
                      /\ session_rows[j].content = history_read.result[i].content )

\* sess_a and sess_b each got one message, each history holds its own, and
\* the history read for sess_c, never used, was empty
C23_Witness ==
    /\ Len(adding) = 2
    /\ adding[1].session_id = "sess_a" /\ adding[2].session_id = "sess_b"
    /\ get_history(session_cache, "sess_a")
           = << [ role |-> "user", content |-> Content("new", 1) ] >>
    /\ get_history(session_cache, "sess_b")
           = << [ role |-> "assistant", content |-> Content("new", 2) ] >>
    /\ "sess_c" \notin DOMAIN session_cache
    /\ history_read = [ session_id |-> "sess_c", result |-> << >> ]

----------------------------------------------------------------------------
\* ── Properties of the events of a turn ──────────────────────────────────

\* the step sends a response_meta event
SendsMeta ==
    /\ Len(outbox') = Len(outbox) + 1
    /\ outbox'[Len(outbox')].kind = "response_meta"

\* C24 as stated: the emojis of response_meta are the list run_agent
\* returned when that list is not empty, and at most 2 emojis of the emotion
\* otherwise.
C24_AsStated ==
    [][ SendsMeta =>
            LET emojis == outbox'[Len(outbox')].arg IN
            IF response.emojis /= << >>
            THEN emojis = response.emojis
            ELSE Len(emojis) <= 2 ]_vars

\* C24: the emojis of response_meta begin with the list run_agent returned;
\* when that list is not empty the first 2 emojis of the emotion (all of
\* them, if it has fewer) follow it, and when it is empty the emojis are all
\* the emojis of the emotion, those of "neutral" for an emotion without an
\* entry.
C24_ResponseMetaEmojis ==
    [][ SendsMeta =>
            LET emojis == outbox'[Len(outbox')].arg
                given == response.emojis
                defaults == IF response.emotion \in DOMAIN EMOTION_TO_EMOJIS
                            THEN EMOTION_TO_EMOJIS[response.emotion]
                            ELSE EMOTION_TO_EMOJIS["neutral"]
                added == Len(emojis) - Len(given)
            IN /\ added >= 0
               /\ SubSeq(emojis, 1, Len(given)) = given
               /\ SubSeq(emojis, Len(given) + 1, Len(emojis)) = SubSeq(defaults, 1, added)
               /\ IF given /= << >>
                  THEN added = IF Len(defaults) < 2 THEN Len(defaults) ELSE 2
                  ELSE added = Len(defaults) ]_vars

\* a response_meta with the one emoji run_agent gave and two of "happy"
\* after it, and in another turn one with the four emojis of "happy"
C24_Witness ==
    /\ \E i \in 1..Len(outbox) :
         /\ outbox[i].kind = "response_meta"
         /\ outbox[i].arg = << "1F44B", "1F600", "1F603" >>
    /\ \E i \in 1..Len(outbox) :
         /\ outbox[i].kind = "response_meta"
         /\ outbox[i].arg = << "1F600", "1F603", "1F604", "1F60A" >>

\* the events of turn t in box, in the order they were sent
EventsOf(box, t) == SelectSeq(box, LAMBDA ev : ev.turn = t)

\* the kinds of the events of a turn whose run_agent returned resp
ExpectedKinds(resp) ==
    << "emotion" >>
    \o ( IF resp.response_text /= << >> THEN << "text_chunk" >> ELSE << >> )
    \o ( IF classify_intent(resp.response_text) /= None
         THEN << "capture_request" >> ELSE << >> )
    \o << "response_meta", "stream_end" >>

\* C25: when a turn whose run_agent returned sends its stream_end, the events
\* of the turn are, in this order: one emotion, one text_chunk (with the
\* text) if the response text is not empty, one capture_request if
\* classify_intent finds a capture intent in the text (photo or video
\* accordingly), one response_meta, and the stream_end; the turn is then over,
\* and no event of a turn is ever sent after the turn's stream_end; the step
\* after a response_meta is the one that sends the stream_end.
C25_TurnEvents ==
    /\ [][ ( Len(outbox') = Len(outbox) + 1 /\ outbox'[Len(outbox')].kind = "stream_end" ) =>
             LET evs == EventsOf(outbox', turn.n)
                 intent == classify_intent(response.response_text)
             IN /\ agentResult = "returned"
                /\ [ i \in 1..Len(evs) |-> evs[i].kind ] = ExpectedKinds(response)
                /\ \A i \in 1..Len(evs) :
                     /\ evs[i].kind = "text_chunk" => evs[i].arg = response.response_text
                     /\ evs[i].kind = "capture_request" =>
                          evs[i].arg = ( IF intent = "photo_request" THEN "photo" ELSE "video" )
                /\ pc' = "recv" ]_vars
    /\ [] ( \A i, j \in 1..Len(outbox) :
              ( outbox[i].kind = "stream_end" /\ i < j ) => outbox[j].turn /= outbox[i].turn )
    /\ [][ ( Len(outbox') = Len(outbox) + 1 /\ outbox'[Len(outbox')].kind = "response_meta" ) =>
             ( pc' = "end" /\ wsState' = "ACTIVE" ) ]_vars

\* two turns ended: one with a text and a capture request, sent
\* between the text_chunk and the response_meta; one without text, hence
\* with neither
C25_Witness ==
    /\ turns = 2 /\ pc = "recv"
    /\ [ i \in 1..Len(EventsOf(outbox, 1)) |-> EventsOf(outbox, 1)[i].kind ]
           = << "emotion", "text_chunk", "capture_request", "response_meta", "stream_end" >>
    /\ [ i \in 1..Len(EventsOf(outbox, 2)) |-> EventsOf(outbox, 2)[i].kind ]
           = << "emotion", "response_meta", "stream_end" >>

----------------------------------------------------------------------------
\* ── Properties of a connection that is not authenticated ────────────────

\* auth_ok was sent
AuthOkSent == \E i \in 1..Len(outbox) : outbox[i].kind = "auth_ok"

\* C26: as long as no auth_ok was sent, no frame was handed to the loop, no
\* run_agent call was made, no turn started, no background task created, and
\* the only events sent are errors of the authentication; the connection is
\* ACTIVE only once auth_ok was sent; and the state goes from CONNECTING to
\* AWAITING_AUTH, from there to ACTIVE or CLOSED, from ACTIVE to CLOSED, and
\* never leaves CLOSED.
C26_NoDispatchBeforeAuth ==
    /\ [] ( ~ AuthOkSent =>
              /\ frames = 0 /\ lastFrame = NoFrame
              /\ agentCalls = 0 /\ turns = 0 /\ turn = NoTurn
              /\ bg = << >>
              /\ wsState /= "ACTIVE"
              /\ pc \in { "accept", "auth", "done" }
              /\ \A i \in 1..Len(outbox) : outbox[i].kind = "error" /\ outbox[i].turn = 0 )
    /\ [] ( wsState \in { "CONNECTING", "AWAITING_AUTH" } => outbox = << >> )
    /\ [][ wsState' /= wsState =>
             \/ wsState = "CONNECTING" /\ wsState' = "AWAITING_AUTH"
             \/ wsState = "AWAITING_AUTH" /\ wsState' \in { "ACTIVE", "CLOSED" }
             \/ wsState = "ACTIVE" /\ wsState' = "CLOSED" ]_vars
    /\ [][ wsState = "CLOSED" => ( wsState' = "CLOSED" /\ outbox' = outbox
                                   /\ agentCalls' = agentCalls /\ bg' = bg ) ]_vars

\* the authentication failed: the connection is closed with an error event,
\* no auth_ok, and nothing was dispatched
C26_Witness ==
    /\ wsState = "CLOSED"
    /\ exitPath = "auth_failed"
    /\ ~ AuthOkSent
    /\ Len(outbox) = 1 /\ outbox[1].kind = "error"
    /\ frames = 0 /\ agentCalls = 0

----------------------------------------------------------------------------
\* ── Properties of the replacement of memories ───────────────────────────

\* C27: replace_with_compacted with a content that is_private rejects returns
\* None, leaves none of the rows whose id is in old_ids, leaves every other
\* row as it was, and inserts nothing (no new row, no id used) - in every
\* state of the table, for every set of ids; and each such call made took
\* rows away at most.
C27_PrivateReplacement ==
    /\ [] ( \A c \in MemContents :
              is_private(c) =>
                  \A old_ids \in SUBSET ( 1..mem_next_id ) :
                      LET r == replace_with_compacted(DB, old_ids, "general", c, None, NULL,
                                                      COMPACTED_IMPORTANCE)
                      IN /\ r.ret = << >>
                         /\ \A m \in r.db.rows : m.id \notin old_ids
                         /\ r.db.rows = { m \in memories : m.id \notin old_ids }
                         /\ r.db.next_id = mem_next_id )
    /\ [][ ( memOp'.n = memOp.n + 1 /\ memOp'.op = "replace_with_compacted"
             /\ is_private(memOp'.content) ) =>
               /\ memOp'.ret = << >>
               /\ memories' \subseteq memories
               /\ mem_next_id' = mem_next_id ]_vars

\* two memories were saved and then replaced by a content with "clave": both
\* are gone, the table is empty, and the call returned None
C27_Witness ==
    /\ memOp.n = 3
    /\ memOp.op = "replace_with_compacted"
    /\ is_private(memOp.content)
    /\ memOp.ret = << >>
    /\ mem_next_id = 3
    /\ memories = { }

----------------------------------------------------------------------------
\* ── Properties of a compaction pass ─────────────────────────────────────

\* the rows a step deletes, and the rows it inserts
Removed == memories \ memories'

Added == memories' \ memories

\* C28 as stated: a step of a pass that deletes memories of a group also
\* stores exactly one memory, of the group's subject and type.
C28_AsStated ==
    [][ Removed /= { } =>
            /\ Cardinality(Added) = 1
            /\ \A a \in Added, r \in Removed :
                 a.memory_type = r.memory_type /\ a.person_id = r.person_id ]_vars

\* C28, what a pass does: memories are deleted or stored only by the
\* _compact_group call of a group whose model call answered with a text that
\* is not blank; the memories deleted are those of the group besides the two
\* held out (those of them still in the table); when the text holds no privacy
\* keyword exactly one memory, of the group's subject and type, of importance
\* 7 and with the text as content, is stored with the deletion, and when it
\* holds one nothing is stored.
C28_ReplacementUnlessRejected ==
    [][ ( Removed /= { } \/ Added /= { } ) =>
            \E p \in 1..Len(passes) :
                /\ passes[p].pc = "compact"
                /\ Len(llm_calls') = Len(llm_calls) + 1
                /\ LET w == Head(passes[p].work)
                       call == llm_calls'[Len(llm_calls')]
                       text == Strip(call.out.text)
                       old_ids == { w.to_compact[i].id : i \in 1..Len(w.to_compact) }
                   IN /\ Removed = { m \in memories : m.id \in old_ids }
                      /\ call.pass = p
                      /\ Answered(call.out)
                      /\ IF is_private(text)
                         THEN Added = { }
                         ELSE /\ Cardinality(Added) = 1
                              /\ \A a \in Added :
                                   /\ a.memory_type = w.memory_type
                                   /\ a.person_id = passes[p].person_id
                                   /\ a.importance = COMPACTED_IMPORTANCE
                                   /\ a.content = text ]_vars

\* the pass over the general memories is over: the model's text held "PIN",
\* 7 of the 9 memories are gone and no memory was stored
C28_WitnessLost ==
    /\ Len(passes) = 1 /\ passes[1].pc = "done"
    /\ passes[1].person_id = None
    /\ Len(llm_calls) = 1
    /\ is_private(Strip(llm_calls[1].out.text))
    /\ Cardinality({ m \in memories : m.person_id = None /\ m.memory_type = "general" }) = 2
    /\ \A m \in memories : m.id < mem_next_id - 1
    /\ mem_next_id = 100

\* the groups over the threshold that pass p loaded
LargeGroups(p) ==
    { t \in LoadedTypes(p) : Cardinality(Loaded(p, t)) > COMPACTION_THRESHOLD }

C30_FailedGroupUntouched ==
    /\ [][ \A p \in 1..Len(passes) :
             ( /\ passes[p].pc = "compact" /\ passes'[p] /= passes[p]
               /\ ~ Answered(llm_calls'[Len(llm_calls')].out) ) =>
                 /\ memories' = memories
                 /\ mem_next_id' = mem_next_id
                 /\ Len(llm_calls') = Len(llm_calls) + 1
                 /\ passes'[p].work = Tail(passes[p].work)
                 /\ passes'[p].pc = IF passes'[p].work = << >> THEN "done" ELSE "compact" ]_vars
    /\ [] ( \A p \in 1..Len(passes) :
              \A t \in LoadedTypes(p) : Cardinality(CallsFor(p, t)) <= 1 )
    /\ [] ( \A p \in 1..Len(passes) :
              passes[p].pc = "done" =>
                  \A t \in LargeGroups(p) : Cardinality(CallsFor(p, t)) = 1 )

\* a pass over ana's memories is over: the call for the first of its two
\* groups failed and left the group as loaded, and the call for the second
\* was made and replaced that group's memories
C30_Witness ==
    /\ Len(passes) = 1 /\ passes[1].pc = "done"
    /\ Len(llm_calls) = 2
    /\ ~ Answered(llm_calls[1].out)
    /\ GroupNow(passes[1].person_id, llm_calls[1].memory_type)
           = Loaded(1, llm_calls[1].memory_type)
    /\ Answered(llm_calls[2].out)
    /\ llm_calls[2].memory_type /= llm_calls[1].memory_type
    /\ Cardinality(GroupNow(passes[1].person_id, llm_calls[2].memory_type)) = 3

----------------------------------------------------------------------------
\* ── Properties of passes that overlap ───────────────────────────────────

\* every pass started is over
AllDone == \A p \in 1..Len(passes) : passes[p].pc = "done"

\* the calls of pass p that gave a text which was stored
Stored(p, memory_type) ==
    { i \in CallsFor(p, memory_type) :
        Answered(llm_calls[i].out) /\ ~ is_private(Strip(llm_calls[i].out.text)) }

\* C31 as stated: when two passes of one subject that both loaded a group of
\* 9, and whose model calls both gave a text that is stored, are over, the
\* group is what one pass leaves: the two held out and one new memory.
C31_AsStated ==
    ( Len(passes) = 2 /\ AllDone ) =>
        \A t \in LargeGroups(1) \cap LargeGroups(2) :
            ( Loaded(1, t) = Loaded(2, t) /\ Stored(1, t) /= { } /\ Stored(2, t) /= { } ) =>
                EndsWithThree(Loaded(1, t), GroupNow(passes[1].person_id, t))

\* C31, what overlapping passes leave: when passes of one subject that
\* loaded the same group of 9 are over, the two held out are in the table as
\* loaded, the other 7 are gone if any of the calls gave a text that is not
\* blank and are all there otherwise, and the table holds one new memory of
\* importance 7 for each pass whose call gave a text that is stored - two
\* passes, two new memories.
C31_RacingPasses ==
    ( Len(passes) >= 2 /\ AllDone ) =>
        \A t \in LargeGroups(1) :
            ( \A p \in 1..Len(passes) : Loaded(p, t) = Loaded(1, t) ) =>
                LET G == Loaded(1, t)
                    now_g == GroupNow(passes[1].person_id, t)
                    answered == { i \in 1..Len(llm_calls) :
                                    llm_calls[i].memory_type = t /\ Answered(llm_calls[i].out) }
                    stored == { i \in answered : ~ is_private(Strip(llm_calls[i].out.text)) }
                IN /\ now_g \cap G = IF answered = { } THEN G ELSE HeldOut(G)
                   /\ Cardinality(now_g \ G) = Cardinality(stored)
                   /\ \A m \in now_g \ G : m.importance = COMPACTED_IMPORTANCE

\* two passes over ana's memories loaded the same 9 person_fact memories
\* and are over: the group holds the two held out and two new memories
C31_WitnessTwice ==
    /\ Len(passes) = 2 /\ AllDone
    /\ passes[1].person_id = "ana"
    /\ Loaded(1, "person_fact") = Loaded(2, "person_fact")
    /\ Cardinality(Loaded(1, "person_fact")) = 9
    /\ Cardinality(GroupNow("ana", "person_fact")) = 4
    /\ Cardinality(GroupNow("ana", "person_fact") \ Loaded(1, "person_fact")) = 2

----------------------------------------------------------------------------
\* ── Properties of the compaction of the conversation log ────────────────

\* the _compact task k replaces rows and cache in this step
Replaces(k) == compact_tasks[k].pc = "summary" /\ compact_tasks'[k].pc = "done"

\* message m, by role and content, is in the list msgs
Holds(msgs, m) ==
    \E j \in 1..Len(msgs) : msgs[j].role = m.role /\ msgs[j].content = m.content

\* the 5 messages that are the last of the cache
MostRecent == last(_cache.msgs, IF Len(_cache.msgs) < keep THEN Len(_cache.msgs) ELSE keep)

\* C32 as stated: the 5 messages that are the last of the log when a _compact
\* task replaces the old range are in the log after it, with their roles and
\* contents.
C32_AsStated ==
    [][ \A k \in 1..Len(compact_tasks) :
          Replaces(k) =>
              \A i \in 1..Len(MostRecent) : Holds(_cache'.msgs, MostRecent[i]) ]_vars

\* C32, what _compact exempts: the 5 messages that were the last of the cache
\* when the task read it are the 5 after the summary in the new cache, and
\* every row whose message_index is not an index of the range the task read
\* stays in the table as it is; a task that finds fewer than 6 messages ends
\* without a change, and one that goes on found 6 or more.
C32_ExemptAtRead ==
    [][ \A k \in 1..Len(compact_tasks) :
          /\ Replaces(k) =>
               /\ Len(compact_tasks[k].msgs) >= keep + 1
               /\ \A i \in 1..keep :
                    Holds(<< _cache'.msgs[i + 1] >>, last(compact_tasks[k].msgs, keep)[i])
               /\ \A r \in 1..Len(history_rows) :
                    ( \A j \in 1..Len(compact_tasks[k].to_compact) :
                        compact_tasks[k].to_compact[j].index
                            /= history_rows[r].message_index ) =>
                        \E q \in 1..Len(history_rows') : history_rows'[q] = history_rows[r]
          /\ ( compact_tasks[k].pc = "start" /\ compact_tasks'[k].pc = "summary" ) =>
               Len(_cache.msgs) >= keep + 1
          /\ ( compact_tasks[k].pc = "start" /\ compact_tasks'[k].pc = "nothing" ) =>
               ( Len(_cache.msgs) < keep + 1 /\ _cache' = _cache
                 /\ history_rows' = history_rows ) ]_vars

\* a compaction of the 20 messages it read is over, and a message that was
\* appended as the 21st before the replacement is in the table but no longer
\* in the cache
C32_WitnessDropped ==
    /\ Len(compact_tasks) >= 1 /\ compact_tasks[1].pc = "done"
    /\ Len(_cache.msgs) = keep + 1
    /\ \E r \in 1..Len(history_rows) :
         /\ history_rows[r].message_index = CONVERSATION_COMPACTION_THRESHOLD
         /\ ~ history_rows[r].is_compacted
         /\ ~ Holds(_cache.msgs, history_rows[r])

\* C33: a _compact task whose model call fails changes neither the cache nor
\* the table: the step in which it fails, like the step in which it read the
\* cache, leaves both as they are.
C33_FailedCompaction ==
    [][ \A k \in 1..Len(compact_tasks) :
          ( compact_tasks'[k] /= compact_tasks[k] /\ compact_tasks'[k].pc /= "done" ) =>
              ( _cache' = _cache /\ history_rows' = history_rows ) ]_vars

\* a compaction failed on a log that had reached the threshold: the log is
\* whole in the cache and in the table, without a summary
C33_Witness ==
    /\ \E k \in 1..Len(compact_tasks) : compact_tasks[k].pc = "failed"
    /\ Len(_cache.msgs) >= CONVERSATION_COMPACTION_THRESHOLD
    /\ Len(history_rows) = Len(_cache.msgs)
    /\ \A r \in 1..Len(history_rows) : ~ history_rows[r].is_compacted

\* the messages appended to the list a _compact task read, since it read it
SinceRead(task) ==
    IF Len(_cache.msgs) >= Len(task.msgs)
       /\ SubSeq(_cache.msgs, 1, Len(task.msgs)) = task.msgs
    THEN drop_first(_cache.msgs, Len(task.msgs))
    ELSE << >>

\* C34 as the claim states it: a message appended between a compaction's read
\* of the cache and its replacement is in the cache once the compaction is
\* over, after the summary and the kept entries.
C34_AsStated ==
    [][ \A k \in 1..Len(compact_tasks) :
          Replaces(k) =>
              \A i \in 1..Len(SinceRead(compact_tasks[k])) :
                  Holds(drop_first(_cache'.msgs, keep + 1), SinceRead(compact_tasks[k])[i]) ]_vars

\* C34, what the replacement does: the new cache is the summary and the 5
\* messages kept at the read, nothing more; a message appended since the read
\* keeps its row in the table only.
C34_RowOnly ==
    [][ \A k \in 1..Len(compact_tasks) :
          Replaces(k) =>
              /\ Len(_cache'.msgs) = keep + 1
              /\ _cache'.id /= _cache.id
              /\ \A i \in 1..Len(SinceRead(compact_tasks[k])) :
                    \E r \in 1..Len(history_rows') :
                        /\ Holds(<< SinceRead(compact_tasks[k])[i] >>, history_rows'[r])
                        /\ ~ history_rows'[r].is_compacted ]_vars

\* the second turn's user message went into the list of 20 while the
\* compaction waited for its summary; the compaction is over and the cache
\* does not hold that message, whose task still points into the old list
C34_WitnessLost ==
    /\ Len(compact_tasks) >= 1 /\ compact_tasks[1].pc = "done"
    /\ Len(save_tasks) = 2 /\ save_tasks[2].pc = "assistant-commit"
    /\ save_tasks[2].list_id /= _cache.id
    /\ save_tasks[2].index = CONVERSATION_COMPACTION_THRESHOLD + 1
    /\ ~ Holds(_cache.msgs, [ role |-> "user", content |-> Content("user", 2) ])

\* no append and no compaction is under way
Quiescent ==
    /\ \A t \in 1..Len(save_tasks) : save_tasks[t].pc \in { "done", "failed" }
    /\ \A k \in 1..Len(compact_tasks) : compact_tasks[k].pc \in { "done", "failed", "nothing" }

\* the row of a cached message; contents tell the messages apart
RowOf(m) == CHOOSE r \in 1..Len(history_rows) : Holds(<< m >>, history_rows[r])

\* load_from_db, lines 100-110, can only give the roles and contents of msgs,
\* in their order: every row is the row of one message, and message_index
\* grows along msgs, so that order_by(message_index) leaves one order
loads_as(rows, msgs) ==
    /\ Len(rows) = Len(msgs)
    /\ \A i \in 1..Len(msgs) : \E r \in 1..Len(rows) : Holds(<< msgs[i] >>, rows[r])
    /\ \A i, j \in 1..Len(msgs) :
         i < j => rows[RowOf(msgs[i])].message_index < rows[RowOf(msgs[j])].message_index

\* no two rows carry the same message_index
DistinctIndices ==
    \A r, q \in 1..Len(history_rows) :
        r /= q => history_rows[r].message_index /= history_rows[q].message_index

\* C35 as the claim states it: whenever no append and no compaction is under
\* way, loading the table in index order gives the roles and contents of the
\* cache, in the cache's order.
C35_AsStated == Quiescent => loads_as(history_rows, _cache.msgs)

\* C35, what holds: the table loads as the cache while no compaction has
\* replaced the cache and the appends gave every row its own index, and also
\* right after a single compaction, when the cache is the summary and the 5
\* kept and the table has their 6 rows.
C35_MirrorsUntilCompacted ==
    ( Quiescent /\ DistinctIndices
      /\ \/ \A k \in 1..Len(compact_tasks) : compact_tasks[k].pc /= "done"
         \/ /\ Len(history_rows) = keep + 1
            /\ Cardinality({ k \in 1..Len(compact_tasks) :
                                compact_tasks[k].pc = "done" }) = 1 ) =>
        loads_as(history_rows, _cache.msgs)

\* two turns were appended one after the other, the first compaction is over
\* and the table loads as the cache
C35_Witness ==
    /\ Quiescent /\ DistinctIndices
    /\ Len(save_tasks) = 2 /\ \A t \in 1..2 : save_tasks[t].pc = "done"
    /\ Cardinality({ k \in 1..Len(compact_tasks) : compact_tasks[k].pc = "done" }) = 1
    /\ Len(history_rows) = keep + 1
    /\ loads_as(history_rows, _cache.msgs)

\* a compaction is over and a later turn was appended: the new rows carry the
\* indices 6 and 7, below those of the 5 kept rows, and load before them
C35_WitnessReordered ==
    /\ Quiescent /\ DistinctIndices
    /\ Len(_cache.msgs) = keep + 3
    /\ Len(history_rows) = keep + 3
    /\ \E r, q \in 1..Len(history_rows) :
         /\ history_rows[r].content = Content("assistant", 2)
         /\ history_rows[q].content = _cache.msgs[keep + 1].content
         /\ history_rows[r].message_index < history_rows[q].message_index
    /\ ~ loads_as(history_rows, _cache.msgs)

\* the rows of the turns' messages, in the order of their insertion
TurnRows ==
    SelectSeq(history_rows, LAMBDA row : row.content[1] \in { "user", "assistant" })

\* the cached messages of the turns, in the order of the list
TurnMsgs ==
    SelectSeq(_cache.msgs, LAMBDA m : m.content[1] \in { "user", "assistant" })

\* the turn whose _save_history_bg task wrote the record
TurnOf(record) == record.content[2]

\* within a turn the user record comes first
UserFirst(log) ==
    \A p, q \in 1..Len(log) :
        ( p < q /\ TurnOf(log[p]) = TurnOf(log[q]) ) =>
            ( log[p].role = "user" /\ log[q].role = "assistant" )

\* the records of a turn are together and the turns follow each other
TurnOrder(log) ==
    /\ UserFirst(log)
    /\ \A p, q \in 1..Len(log) : p < q => TurnOf(log[p]) <= TurnOf(log[q])

\* C40 as the claim states it: in the table and in the cache the user record
\* of a turn is followed by its assistant record with no record of another
\* turn between them, and the records of a turn precede those of the next
\* turn, whatever the interleaving of the _save_history_bg tasks.
C40_AsStated == TurnOrder(TurnRows) /\ TurnOrder(TurnMsgs)

\* task t is the only _save_history_bg task at work: the earlier ones have
\* ended and the later ones have not run their first line
Alone(t) ==
    \A u \in 1..Len(save_tasks) :
        /\ u < t => save_tasks[u].pc \in { "done", "failed" }
        /\ u > t => save_tasks[u].pc = "user"

\* C40, what holds: a turn's user record always precedes its assistant
\* record, and a task that works alone on a log whose turns are in order
\* leaves them in order.
C40_UserBeforeAssistant ==
    [][ ( history_rows' /= history_rows \/ _cache' /= _cache ) =>
          LET rows == TurnRows'
              msgs == TurnMsgs'
          IN /\ UserFirst(rows) /\ UserFirst(msgs)
             /\ \A t \in 1..Len(save_tasks) :
                  ( save_tasks'[t] /= save_tasks[t] /\ Alone(t)
                    /\ TurnOrder(TurnRows) /\ TurnOrder(TurnMsgs) ) =>
                      ( TurnOrder(rows) /\ TurnOrder(msgs) ) ]_vars

\* two turns are in the log, each user record right before its assistant
\* record, the first turn before the second
C40_Witness ==
    /\ Len(TurnRows) = 4 /\ Len(TurnMsgs) = 4
    /\ DistinctIndices
    /\ TurnOrder(TurnRows) /\ TurnOrder(TurnMsgs)

\* the second turn's user record lies between the two records of the first
C40_WitnessInterleaved ==
    /\ Len(TurnRows) = 4
    /\ TurnRows[1].content = Content("user", 1)
    /\ TurnRows[2].content = Content("user", 2)
    /\ TurnRows[3].content = Content("assistant", 1)
    /\ TurnRows[4].content = Content("assistant", 2)

----------------------------------------------------------------------------
\* ── Properties of the receive loop's per-turn state ─────────────────────

\* the loop handles a JSON object of the given type in this step
Handles(type) == frames' = frames + 1 /\ IsObject(lastFrame', type)

\* what an interaction_start does besides setting request_id: person and
\* face embedding from the message (None when absent or empty), the audio
\* buffer emptied, nothing sent, no turn, no agent call, no background task,
\* and the conversation log left as it is
StartResets ==
    /\ person_id' = ( IF Truthy(lastFrame'.person_id) THEN lastFrame'.person_id ELSE None )
    /\ audio_buffer' = << >>
    /\ pending_face_embedding' =
         ( IF Truthy(lastFrame'.face_embedding) THEN lastFrame'.face_embedding ELSE None )
    /\ outbox' = outbox
    /\ turns' = turns /\ agentCalls' = agentCalls /\ pc' = pc /\ bg' = bg
    /\ _cache' = _cache /\ history_rows' = history_rows /\ save_tasks' = save_tasks

\* C36: an interaction_start makes request_id the message's request_id (a
\* newly generated one when the message has none) and resets the rest: the
\* person and the pending face embedding are the message's (or None), the
\* audio buffer is empty, nothing is sent, the agent is not called and the
\* conversation log does not change.
C36_InteractionStart ==
    [][ Handles("interaction_start") =>
          /\ request_id' = ( IF Truthy(lastFrame'.request_id) THEN lastFrame'.request_id
                             ELSE new_request_id )
          /\ StartResets ]_vars

\* an interaction_start arrived after a fragment of audio: the buffer is
\* empty again and the person, the request and the embedding are the message's
C36_Witness ==
    /\ IsObject(lastFrame, "interaction_start")
    /\ frames = 2
    /\ audio_buffer = << >>
    /\ person_id = "ana" /\ request_id = "r1" /\ pending_face_embedding = "e1"
    /\ outbox = << make_auth_ok(new_session_id) >>

\* an interaction_start without a request_id: the connection's request_id is
\* a generated one
C36_WitnessGenerated ==
    /\ IsObject(lastFrame, "interaction_start")
    /\ ~ Truthy(lastFrame.request_id)
    /\ request_id = new_request_id

TakesEmbedding == { "text", "audio_end", "image", "multimodal" }

\* msg.get("face_embedding") or pending_face_embedding, for the frame handled
face_emb == IF Truthy(lastFrame'.face_embedding) THEN lastFrame'.face_embedding
            ELSE pending_face_embedding

\* C38 as the claim states it: a stashed face embedding goes to the turn that
\* is started next (unless the message has its own) and is then gone, and a
\* message that starts no turn, other than an interaction_start, leaves it
\* stashed.
C38_AsStated ==
    [][ ( frames' = frames + 1 /\ pending_face_embedding /= None ) =>
          /\ turns' = turns + 1 =>
               ( turn'.face_embedding_b64 = face_emb /\ pending_face_embedding' = None )
          /\ ( turns' = turns /\ ~ IsObject(lastFrame', "interaction_start") ) =>
               pending_face_embedding' = pending_face_embedding ]_vars

\* C38, what the branches do: a text, audio_end, image or multimodal message
\* clears the stash, whether it starts a turn or not, and the turn it starts
\* gets the message's embedding or else the stash; a turn started by any
\* other message gets no embedding and leaves the stash for later; the stash
\* changes on no other message but an interaction_start.
C38_StashHandling ==
    [][ /\ ( \E type \in TakesEmbedding : Handles(type) ) =>
              /\ pending_face_embedding' = None
              /\ turns' = turns + 1 => turn'.face_embedding_b64 = face_emb
        /\ ( turns' = turns + 1 /\ ~ \E type \in TakesEmbedding : Handles(type) ) =>
              /\ turn'.face_embedding_b64 = None
              /\ pending_face_embedding' = pending_face_embedding
        /\ pending_face_embedding' /= pending_face_embedding =>
              \E type \in TakesEmbedding \cup { "interaction_start" } : Handles(type) ]_vars

\* the embedding stashed by an interaction_start went to the turn of the text
\* message after it, which had none of its own
C38_Witness ==
    /\ IsObject(lastFrame, "text") /\ lastFrame.face_embedding = None
    /\ frames = 2 /\ turns = 1
    /\ turn.face_embedding_b64 = "e1"
    /\ pending_face_embedding = None

\* after interaction_start{r1, ana, e1} a text with empty content arrived: no
\* turn was started and the stash is gone
C38_WitnessDiscarded ==
    /\ IsObject(lastFrame, "text") /\ ~ Truthy(lastFrame.content)
    /\ lastFrame.request_id = None
    /\ frames = 2 /\ turns = 0
    /\ person_id = "ana" /\ request_id = "r1"
    /\ pending_face_embedding = None

\* after interaction_start{r1, ana, e1} a video message started a turn
\* without an embedding, and the stash is still held for a later turn
C38_WitnessHeld ==
    /\ IsObject(lastFrame, "video")
    /\ frames = 2 /\ turns = 1
    /\ turn.face_embedding_b64 = None
    /\ pending_face_embedding = "e1"

----------------------------------------------------------------------------
\* ── Properties of set_current_zone with no target ───────────────────────

\* this step is a set_current_zone call whose zone_id matches no row
MissesTarget ==
    /\ zoneOp'.n = zoneOp.n + 1
    /\ zoneOp'.op = "set_current_zone"
    /\ \A z \in zones : z.id /= zoneOp'.zone_id

\* C39 as the claim states it: a set_current_zone whose identifier matches no
\* zone returns no zone and leaves every zone's flag as it was.
C39_AsStated ==
    [][ MissesTarget => ( zoneOp'.ret = << >> /\ zones' = zones ) ]_vars

\* C39, what the call does: it returns no zone, and it has unmarked every
\* zone: no zone is current afterwards, and the rows are otherwise as they
\* were.
C39_MissingTargetClears ==
    [][ MissesTarget =>
          /\ zoneOp'.ret = << >>
          /\ zones' = { [ z EXCEPT !.current_robi_zone = FALSE ] : z \in zones }
          /\ \A z \in zones' : ~ z.current_robi_zone
          /\ zone_next_id' = zone_next_id ]_vars

\* the third call was a set_current_zone for a zone that does not exist: it
\* returned no zone and the one zone of the table is not current
C39_Witness ==
    /\ zoneOp.n = 3
    /\ zoneOp.op = "set_current_zone"
    /\ zoneOp.ret = << >>
    /\ Cardinality(zones) = 1
    /\ Marked = { }

====
